---- MODULE Spec2Model ----
(***************************************************************************)
(* A model of src/app.py, class MovieRecommender: the catalog loader       *)
(* (load_data), the TF-IDF feature index built on the genre strings, the   *)
(* title resolver (find_movie) and the query operations.                   *)
(*                                                                         *)
(* Representation.                                                        *)
(*  - A Python str is a sequence of one-character strings.                 *)
(*  - NaN and NaNStr are pandas' missing value (an empty CSV cell).        *)
(*  - A float with one decimal (rating, popularity) is the integer of its  *)
(*    tenths: 70 is 7.0, 500 is 50.0.                                      *)
(*  - A DataFrame is a record [cols, rows]: the set of its column names    *)
(*    and the sequence of its rows; after reset_index the row at ordinal i *)
(*    is rows[i + 1].                                                      *)
(*  - A TF-IDF weight is tf * idf with idf in tenths (TLC's integers have  *)
(*    32 bits); cosine similarities are compared exactly, as fractions.    *)
(***************************************************************************)
EXTENDS Integers, Sequences, FiniteSets, TLC

\* pandas' missing value (an empty CSV cell, or a None stored in a numeric
\* column): below every number in a numeric column, and <<"NaN">>, which is no
\* string of characters, in a column of strings; NaNText in the overview
\* column, whose texts the code never looks into
NaN == 0 - 1
NaNStr == <<"NaN">>
NaNText == "NaN"
\* an optional value (an int or None, a dict or None) is a sequence of at most
\* one element
None == <<>>
Some(x) == <<x>>

(***************************************************************************)
(* Characters and the str methods the code uses.                           *)
(***************************************************************************)
LowerLetters ==
    <<"a","b","c","d","e","f","g","h","i","j","k","l","m",
      "n","o","p","q","r","s","t","u","v","w","x","y","z">>

UpperLetters ==
    <<"A","B","C","D","E","F","G","H","I","J","K","L","M",
      "N","O","P","Q","R","S","T","U","V","W","X","Y","Z">>

Digits == <<"0","1","2","3","4","5","6","7","8","9">>

Range(s) == {s[i] : i \in DOMAIN s}

IsSpace(c) == c \in {" ", "\t"}

IsDigit(c) == c \in Range(Digits)

\* \w of the re module: a letter, a digit or the underscore
IsWordChar(c) ==
    c \in Range(LowerLetters) \cup Range(UpperLetters) \cup Range(Digits) \cup {"_"}

DigitVal(c) == (CHOOSE i \in DOMAIN Digits : Digits[i] = c) - 1

LowerChar(c) ==
    IF c \in Range(UpperLetters)
    THEN LowerLetters[CHOOSE i \in DOMAIN UpperLetters : UpperLetters[i] = c]
    ELSE c

\* str.lower()
Lower(s) == [i \in DOMAIN s |-> LowerChar(s[i])]

RECURSIVE LStrip(_)
LStrip(s) == IF s # <<>> /\ IsSpace(Head(s)) THEN LStrip(Tail(s)) ELSE s

RECURSIVE RStrip(_)
RStrip(s) ==
    IF s # <<>> /\ IsSpace(s[Len(s)]) THEN RStrip(SubSeq(s, 1, Len(s) - 1)) ELSE s

\* str.strip()
Strip(s) == RStrip(LStrip(s))

\* s[i .. i + Len(p) - 1] = p
MatchAt(s, p, i) ==
    /\ i + Len(p) - 1 <= Len(s)
    /\ \A j \in 1..Len(p) : s[i + j - 1] = p[j]

\* `p in s`, and Series.str.contains(p, regex=False): the empty string is in
\* every string
Contains(s, p) == \E i \in 1..(Len(s) + 1) : MatchAt(s, p, i)

\* str.split(sep) for a one-character separator: "a||b" gives a, "", b and
\* "" gives one empty part
RECURSIVE Split(_, _)
Split(s, sep) ==
    IF \E i \in DOMAIN s : s[i] = sep
    THEN LET i == CHOOSE k \in DOMAIN s :
                      s[k] = sep /\ \A j \in 1..(k - 1) : s[j] # sep
         IN  <<SubSeq(s, 1, i - 1)>> \o Split(SubSeq(s, i + 1, Len(s)), sep)
    ELSE <<s>>

\* str.replace(c, d) for one-character strings
ReplaceChar(s, c, d) == [i \in DOMAIN s |-> IF s[i] = c THEN d ELSE s[i]]

\* str.replace(p, ""): every occurrence of p, left to right, without overlap
RECURSIVE Remove(_, _)
Remove(s, p) ==
    IF s = <<>> THEN <<>>
    ELSE IF MatchAt(s, p, 1) THEN Remove(SubSeq(s, Len(p) + 1, Len(s)), p)
    ELSE <<Head(s)>> \o Remove(Tail(s), p)

\* "(" and four digits and ")" at position i
YearAt(s, i) ==
    /\ i + 5 <= Len(s)
    /\ s[i] = "("
    /\ \A j \in 1..4 : IsDigit(s[i + j])
    /\ s[i + 5] = ")"

\* re.search(r'\((\d{4})\)', str(title)): the first "(dddd)" as an int, else None,
\* which the year column holds as NaN
_extract_year(title) ==
    IF \E i \in DOMAIN title : YearAt(title, i)
    THEN LET i == CHOOSE k \in DOMAIN title :
                      YearAt(title, k) /\ \A j \in 1..(k - 1) : ~YearAt(title, j)
         IN  DigitVal(title[i + 1]) * 1000 + DigitVal(title[i + 2]) * 100
             + DigitVal(title[i + 3]) * 10 + DigitVal(title[i + 4])
    ELSE NaN

\* re.sub(r'\s*\(\d{4}\)\s*$', '', str(title)).strip(): a "(dddd)" that only
\* whitespace follows is cut out with the whitespace on both sides of it
_clean_title(title) ==
    LET r == RStrip(title)
    IN  IF Len(r) >= 6 /\ YearAt(r, Len(r) - 5)
        THEN Strip(SubSeq(r, 1, Len(r) - 6))
        ELSE Strip(title)

(***************************************************************************)
(* The genre columns load_data derives (lines 72-79).                      *)
(***************************************************************************)
\* the literal '(no genres listed)'
Sentinel ==
    <<"(","n","o"," ","g","e","n","r","e","s"," ","l","i","s","t","e","d",")">>

\* the condition of the comprehension at line 78: `if g and g != '(no genres listed)'`
KeepGenre(g) == g # <<>> /\ g # Sentinel

\* line 78: [g.strip() for g in str(x).split('|') if g and g != '(no genres listed)']
genre_list(x) ==
    LET kept == SelectSeq(Split(x, "|"), KeepGenre)
    IN  [i \in DOMAIN kept |-> Strip(kept[i])]

\* lines 73-74: .str.replace('|', ' ') and then .str.replace('(no genres listed)', '')
genres_processed(x) == Remove(ReplaceChar(x, "|", " "), Sentinel)

(***************************************************************************)
(* TfidfVectorizer(stop_words='english', ngram_range=(1, 2)) of line 82:   *)
(* lowercase, tokens of two or more word characters, stop words dropped,   *)
(* unigrams and bigrams, raw term counts, idf = ln((1 + n) / (1 + df)) + 1.*)
(***************************************************************************)
\* words of scikit-learn's English stop list that the catalogs here can hold
StopWords == {<<"n","o">>, <<"t","h","e">>, <<"o","f">>, <<"o","t","h","e","r">>}

\* the maximal run of word characters s starts with
RECURSIVE WordRun(_)
WordRun(s) ==
    IF s # <<>> /\ IsWordChar(Head(s)) THEN <<Head(s)>> \o WordRun(Tail(s)) ELSE <<>>

\* token_pattern r"(?u)\b\w\w+\b"
RECURSIVE FindTokens(_)
FindTokens(s) ==
    IF s = <<>> THEN <<>>
    ELSE IF ~IsWordChar(Head(s)) THEN FindTokens(Tail(s))
    ELSE LET w == WordRun(s)
             rest == FindTokens(SubSeq(s, Len(w) + 1, Len(s)))
         IN  IF Len(w) >= 2 THEN <<w>> \o rest ELSE rest

NotStopWord(w) == w \notin StopWords

\* the analyzer: the unigrams, then the bigrams of neighbouring tokens
Analyze(doc) ==
    LET toks == SelectSeq(FindTokens(Lower(doc)), NotStopWord)
    IN  toks \o [i \in 1..(Len(toks) - 1) |-> toks[i] \o <<" ">> \o toks[i + 1]]

\* tf: the number of times term t occurs in the analyzed document
Count(terms, t) == Cardinality({i \in DOMAIN terms : terms[i] = t})

\* 1000 * ln(k) for k = 1 .. 10
Ln1000 == <<0, 693, 1099, 1386, 1609, 1792, 1946, 2079, 2197, 2303>>

\* idf = ln((1 + n) / (1 + df)) + 1 (smooth_idf), in tenths, rounded
Idf10(n, df) == (1000 + Ln1000[1 + n] - Ln1000[1 + df] + 50) \div 100

\* the terms fit finds; with none, fit raises ValueError("empty vocabulary")
Vocabulary(docs) == UNION {Range(Analyze(docs[i])) : i \in DOMAIN docs}

\* fit_transform(docs): one sparse vector per document, in document order; a
\* vector maps each term of its document to tf * idf. The l2 normalisation is
\* left to CosineSimilarity, which divides by the norms.
fit_transform(docs) ==
    LET terms == [i \in DOMAIN docs |-> Analyze(docs[i])]
        docfreq(t) == Cardinality({i \in DOMAIN docs : t \in Range(terms[i])})
    IN  [i \in DOMAIN docs |->
            [t \in Range(terms[i]) |-> Count(terms[i], t) * Idf10(Len(docs), docfreq(t))]]

(***************************************************************************)
(* cosine_similarity (line 306), exactly: the square of the cosine of two  *)
(* non-negative vectors as a fraction in lowest terms.                     *)
(***************************************************************************)
RECURSIVE SumOver(_, _)
SumOver(f, S) ==
    IF S = {} THEN 0
    ELSE LET x == CHOOSE y \in S : TRUE IN f[x] + SumOver(f, S \ {x})

Dot(u, v) ==
    LET common == DOMAIN u \cap DOMAIN v
    IN  SumOver([t \in common |-> u[t] * v[t]], common)

RECURSIVE GCD(_, _)
GCD(a, b) == IF b = 0 THEN a ELSE GCD(b, a % b)

\* num / den in lowest terms; 0 is <<0, 1>>
Frac(num, den) ==
    IF num = 0 THEN <<0, 1>>
    ELSE LET g == GCD(num, den) IN <<num \div g, den \div g>>

\* the squared cosine of u and v; a vector of norm 0 has similarity 0 with
\* every vector (scikit-learn's normalize leaves a zero row as it is)
CosineSimilarity(u, v) ==
    LET d == Dot(u, v)
    IN  IF d = 0 THEN <<0, 1>> ELSE Frac(d * d, Dot(u, u) * Dot(v, v))

\* a < b for fractions of naturals, without the cross products (which
\* overflow): by the integer parts, then by the inverted remainders
RECURSIVE FracLess(_, _)
FracLess(a, b) ==
    LET qa == a[1] \div a[2]
        qb == b[1] \div b[2]
        ra == a[1] % a[2]
        rb == b[1] % b[2]
    IN  IF qa # qb THEN qa < qb
        ELSE IF rb = 0 THEN FALSE
        ELSE IF ra = 0 THEN TRUE
        ELSE FracLess(<<b[2], rb>>, <<a[2], ra>>)

(***************************************************************************)
(* The state of a MovieRecommender and of the directory it loads from.     *)
(***************************************************************************)
VARIABLES
    fs,             \* the working directory: file name -> NoFile, or Some(the table read_csv gives)
    argsort_ties,   \* the build: the order numpy's argsort leaves equal scores in
    constructed,    \* __init__ has run
    df,             \* self.df
    tfidf_matrix,   \* self.tfidf_matrix
    is_loaded,      \* self.is_loaded
    error_message,  \* self.error_message
    ret             \* the last call: its name, its arguments and what it returned or raised

vars == <<fs, argsort_ties, constructed, df, tfidf_matrix, is_loaded, error_message, ret>>

NoFile == None

\* self.error_message is None
NoError == "None"

FileNames ==
    {"tmdb_movies_processed.csv", "custom.csv", "movies_with_posters.csv",
     "movies_enhanced.csv", "movies.csv"}

\* os.path.exists(file_path)
Exists(file_path) == file_path \in DOMAIN fs /\ fs[file_path] # NoFile

TmdbFile == <<"tmdb_movies_processed.csv">>

\* a load that prefers the caller's file
CallerFirst(csv_path) ==
    <<csv_path>> \o TmdbFile \o <<"movies_with_posters.csv", "movies_enhanced.csv", "movies.csv">>

\* lines 40-46: the files load_data tries, in this order
files_to_try(csv_path) ==
    TmdbFile \o <<csv_path, "movies_with_posters.csv", "movies_enhanced.csv", "movies.csv">>

\* line 60
required_cols == {"movieId", "title", "genres"}

\* DataFrame.index: each row carries its label under this name, which is no
\* column of the frame
Index == "(index)"

\* line 51: pd.read_csv(file_path) labels the rows of the file 0, 1, 2, ...
read_csv(table) ==
    [cols |-> table.cols,
     rows |-> [i \in DOMAIN table.rows |-> (Index :> i - 1) @@ table.rows[i]]]

\* a load that forgets reset_index: the rows keep the labels they were read with
KeepIndex(rows) == rows

\* line 67: reset_index(drop=True) labels the rows that are left 0, 1, 2, ...
reset_index(rows) == [i \in DOMAIN rows |-> [rows[i] EXCEPT ![Index] = i - 1]]

\* line 65: dropna(subset=['title', 'genres'])
HasTitleAndGenres(row) == row["title"] # NaNStr /\ row["genres"] # NaNStr

dropna(rows) == SelectSeq(rows, HasTitleAndGenres)

\* line 66: drop_duplicates(subset=['title']) keeps the first row of each title
drop_duplicates(rows) ==
    LET first == {i \in DOMAIN rows : \A j \in 1..(i - 1) : rows[j]["title"] # rows[i]["title"]}
        n == Cardinality(first)
        nth(k) == CHOOSE i \in first : Cardinality({j \in first : j < i}) = k - 1
    IN  [k \in 1..n |-> rows[nth(k)]]

\* a column assignment without the test: the values replace a column the file
\* carries
AlwaysSetColumn(frame, col, values) ==
    [cols |-> frame.cols \cup {col},
     rows |-> [i \in DOMAIN frame.rows |->
                 [c \in DOMAIN frame.rows[i] \cup {col} |->
                     IF c = col THEN values[i] ELSE frame.rows[i][c]]]]

\* `if col not in self.df.columns: self.df[col] = values`, values being one
\* value per row
WithColumn(frame, col, values) ==
    IF col \in frame.cols THEN frame
    ELSE [cols |-> frame.cols \cup {col},
          rows |-> [i \in DOMAIN frame.rows |-> (col :> values[i]) @@ frame.rows[i]]]


YearOfRow(row) == _extract_year(row["title"])
CleanTitleOfRow(row) == _clean_title(row["title"])
DefaultRating(row) == 70
DefaultVoteCount(row) == 1000
DefaultPopularity(row) == 500
DefaultOverview(row) == "A great movie to watch!"

\* lines 113-126: a column is derived or defaulted only when the file has no
\* such column; a column the file has is kept as it is, empty cells included
_ensure_columns(frame) ==
    LET rows == frame.rows
        a == WithColumn(frame, "year", [i \in DOMAIN rows |-> YearOfRow(rows[i])])
        b == WithColumn(a, "clean_title", [i \in DOMAIN rows |-> CleanTitleOfRow(rows[i])])
        c == WithColumn(b, "rating", [i \in DOMAIN rows |-> DefaultRating(rows[i])])
        d == WithColumn(c, "vote_count", [i \in DOMAIN rows |-> DefaultVoteCount(rows[i])])
        e == WithColumn(d, "popularity", [i \in DOMAIN rows |-> DefaultPopularity(rows[i])])
    IN  WithColumn(e, "overview", [i \in DOMAIN rows |-> DefaultOverview(rows[i])])

GenresProcessedOfRow(row) == genres_processed(row["genres"])
GenreListOfRow(row) == genre_list(row["genres"])

\* self.df[col] = values, one value per row, replacing the column if there
\* is one
SetColumn(frame, col, values) ==
    [cols |-> frame.cols \cup {col},
     rows |-> [i \in DOMAIN frame.rows |->
                 [c \in DOMAIN frame.rows[i] \cup {col} |->
                     IF c = col THEN values[i] ELSE frame.rows[i][c]]]]

\* lines 64-79: the frame as the try block leaves it before the index is built
Preprocess(raw) ==
    LET cleaned == [cols |-> raw.cols,
                    rows |-> reset_index(drop_duplicates(dropna(raw.rows)))]
        ensured == _ensure_columns(cleaned)
        rows == ensured.rows
    IN  SetColumn(SetColumn(ensured, "genres_processed",
                            [i \in DOMAIN rows |-> GenresProcessedOfRow(rows[i])]),
                  "genre_list", [i \in DOMAIN rows |-> GenreListOfRow(rows[i])])

\* a rebuild that is not the build: on an object that is loaded it fits the
\* vectorizer on the titles
DocsOfRebuild(frame) ==
    IF is_loaded THEN [i \in DOMAIN frame.rows |-> frame.rows[i]["title"]]
    ELSE [i \in DOMAIN frame.rows |-> frame.rows[i]["genres_processed"]]

\* the column df['genres_processed'] that fit_transform reads (line 83)
Docs(frame) == [i \in DOMAIN frame.rows |-> frame.rows[i]["genres_processed"]]

\* lines 48-54: the first of the files to try that exists, if there is one
FoundFile(csv_path) ==
    LET tried == files_to_try(csv_path)
        found == {i \in DOMAIN tried : Exists(tried[i])}
    IN  IF found = {} THEN None
        ELSE Some(tried[CHOOSE i \in found : \A j \in found : i <= j])

\* the message the handlers of lines 88-93 record for the exception the try
\* block ends with (lines 57, 62 and 83), NoError when it runs to its end
LoadError(csv_path) ==
    LET file == FoundFile(csv_path)
    IN  IF file = None THEN "No movie dataset found"
        ELSE IF ~(required_cols \subseteq read_csv(fs[file[1]][1]).cols)
        THEN "Error loading data: CSV must contain columns"
        ELSE IF Vocabulary(Docs(Preprocess(read_csv(fs[file[1]][1])))) = {}
        THEN "Error loading data: empty vocabulary"
        ELSE NoError

\* lines 36-93. What the call leaves in df, tfidf_matrix, is_loaded and
\* error_message: each attribute keeps the last value assigned to it before
\* the exception, if any, was caught at line 88 or 91. df is assigned at
\* line 51 and again at lines 65-79, tfidf_matrix at line 83, is_loaded at
\* line 85 only, error_message in the handlers only.
load_data(csv_path) ==
    LET file == FoundFile(csv_path)
        error == LoadError(csv_path)
    IN  /\ df' = IF file = None THEN df
                 ELSE IF ~(required_cols \subseteq read_csv(fs[file[1]][1]).cols)
                 THEN read_csv(fs[file[1]][1])
                 ELSE Preprocess(read_csv(fs[file[1]][1]))
        /\ tfidf_matrix' = IF error = NoError
                           THEN fit_transform(Docs(Preprocess(read_csv(fs[file[1]][1]))))
                           ELSE tfidf_matrix
        /\ is_loaded' = IF error = NoError THEN TRUE ELSE is_loaded
        /\ error_message' = IF error = NoError THEN error_message ELSE error

(***************************************************************************)
(* What a call leaves in ret.                                              *)
(***************************************************************************)
Returned(op, args, value) ==
    [op |-> op, args |-> args, raised |-> FALSE, value |-> value, fetched |-> <<>>]

Raised(op, args, exc) ==
    [op |-> op, args |-> args, raised |-> TRUE, value |-> exc, fetched |-> <<>>]

\* row.get(col, default)
Get(row, col, default) == IF col \in DOMAIN row THEN row[col] ELSE default

\* numpy's argsort of n keys, ascending (its default kind is not a stable
\* sort): positions 1..n ordered by key, equal keys in the order the build
\* leaves them in, which argsort_ties gives
ArgSort(less) ==
    LET n == Len(less)
        before(i, j) ==
            \/ less[i][j]
            \/ ~less[j][i] /\ argsort_ties[i] < argsort_ties[j]
        place(i) == Cardinality({j \in 1..n : before(j, i)}) + 1
    IN  [p \in 1..n |-> CHOOSE i \in 1..n : place(i) = p]

\* a stable sort of positions 1..n, ascending (pandas' nlargest and nsmallest
\* keep the first of equal keys first)
StableSort(less) ==
    LET n == Len(less)
        before(i, j) == less[i][j] \/ (~less[j][i] /\ i < j)
        place(i) == Cardinality({j \in 1..n : before(j, i)}) + 1
    IN  [p \in 1..n |-> CHOOSE i \in 1..n : place(i) = p]

Reverse(s) == [i \in DOMAIN s |-> s[Len(s) + 1 - i]]

\* s[:k] and DataFrame.head(k), k >= 0
Take(s, k) == SubSeq(s, 1, IF k < Len(s) THEN k ELSE Len(s))

(***************************************************************************)
(* _movie_to_dict (lines 205-230), without the poster.                     *)
(***************************************************************************)
\* int(row['movieId']) and row['title'] raise KeyError on a frame without the
\* column; int(row.get('vote_count', 1000)) raises ValueError on NaN
MovieToDictError(row) ==
    IF ~({"movieId", "title"} \subseteq DOMAIN row) THEN "KeyError"
    ELSE IF row["title"] = NaNStr THEN "TypeError"
    ELSE IF Get(row, "vote_count", 1000) = NaN THEN "ValueError"
    ELSE NoError

\* float(NaN) is NaN: an empty rating cell is reported as NaN. The poster_url
\* of lines 221-222 is the poster API's answer or a placeholder; the record
\* here does not carry it, and Fetched below gives the lookups it costs.
_movie_to_dict(row) ==
    [id |-> row["movieId"],
     title |-> row["title"],
     clean_title |-> Get(row, "clean_title", _clean_title(row["title"])),
     year |-> Get(row, "year", _extract_year(row["title"])),
     genres |-> Get(row, "genre_list", <<>>),
     rating |-> Get(row, "rating", 70),
     vote_count |-> Get(row, "vote_count", 1000),
     overview |-> Get(row, "overview", "A great movie to watch!")]

\* the square of (2s + 1) / 2000, the cosine halfway between the scores of s
\* and s + 1 tenths of a percent
HalfwayAbove(s) == <<(2 * s + 1) * (2 * s + 1), 4000000>>

\* the largest s in lo..hi such that the cosine is at least (2s - 1) / 2000
RECURSIVE NearestTenth(_, _, _)
NearestTenth(similarity, lo, hi) ==
    IF lo = hi THEN lo
    ELSE LET mid == (lo + hi + 1) \div 2
         IN  IF FracLess(similarity, HalfwayAbove(mid - 1))
             THEN NearestTenth(similarity, lo, mid - 1)
             ELSE NearestTenth(similarity, mid, hi)

\* a score rounded to the whole percent
WholePercent(similarity) == 10 * ((NearestTenth(similarity, 0, 1000) + 5) \div 10)

\* line 228: round(float(similarity) * 100, 1), in tenths of a percent; the
\* argument is the squared cosine
similarity_score(similarity) == NearestTenth(similarity, 0, 1000)

\* lines 224-228: rank and similarity_score; the record also carries the
\* squared cosine the score was rounded from
WithRank(movie, rank, similarity) ==
    [k \in DOMAIN movie \cup {"rank", "similarity", "similarity_score"} |->
        IF k = "rank" THEN rank
        ELSE IF k = "similarity" THEN similarity
        ELSE IF k = "similarity_score" THEN similarity_score(similarity)
        ELSE movie[k]]

\* [self._movie_to_dict(row) for row in rows]: the first row that raises
\* ends the comprehension
DictsError(rows) ==
    LET bad == {i \in DOMAIN rows : MovieToDictError(rows[i]) # NoError}
    IN  IF bad = {} THEN NoError
        ELSE MovieToDictError(rows[CHOOSE i \in bad : \A j \in bad : i <= j])

Dicts(rows) == [i \in DOMAIN rows |-> _movie_to_dict(rows[i])]

\* line 19: the key of the poster API, which is set
OMDB_API_KEY == "3294bca1"

Http == <<"h","t","t","p">>
TmdbHost == <<"i","m","a","g","e",".","t","m","d","b",".","o","r","g">>
Placeholder == <<"p","l","a","c","e","h","o","l","d","e","r">>

\* str.isdigit()
IsDigits(s) == s # <<>> /\ \A i \in DOMAIN s : IsDigit(s[i])

\* lines 173-184: the row carries a poster_url that _get_poster_url returns
DatasetPoster(row) ==
    /\ "poster_url" \in DOMAIN row
    /\ LET poster_url == row["poster_url"]
           parts == Split(poster_url, "/")
       IN  /\ poster_url # NaNStr
           /\ poster_url # <<>>
           /\ MatchAt(poster_url, Http, 1)
           /\ IF Contains(poster_url, TmdbHost) THEN ~IsDigits(parts[Len(parts)])
              ELSE ~Contains(Lower(poster_url), Placeholder)

\* lines 187-190: the (title, year) _get_poster_url asks _fetch_omdb_poster for
PosterKey(row) == <<_clean_title(row["title"]), _extract_year(row["title"])>>

\* the rows a comprehension over rows converts before one raises
Processed(rows) ==
    LET bad == {i \in DOMAIN rows : MovieToDictError(rows[i]) # NoError}
    IN  IF bad = {} THEN rows
        ELSE SubSeq(rows, 1, (CHOOSE i \in bad : \A j \in bad : i <= j) - 1)

RECURSIVE Fetched(_)
\* lines 221-222 with 169-203, for each row converted with include_poster: the
\* keys _fetch_omdb_poster (lines 141-167) is called with, in order. Behind its
\* lru_cache it sends requests.get(OMDB_API_URL, ...) for every key it has
\* not been called with before.
Fetched(rows) ==
    IF rows = <<>> THEN <<>>
    ELSE IF OMDB_API_KEY = "" \/ DatasetPoster(Head(rows)) THEN Fetched(Tail(rows))
    ELSE <<PosterKey(Head(rows))>> \o Fetched(Tail(rows))

\* the result of a call that converted these rows with include_poster=True
Fetching(result, rows) == [result EXCEPT !.fetched = Fetched(Processed(rows))]

\* [self._movie_to_dict(row, include_poster=False) for row in rows]
ListWithoutPoster(op, args, rows) ==
    IF DictsError(rows) # NoError THEN Raised(op, args, DictsError(rows))
    ELSE Returned(op, args, Dicts(rows))

\* [self._movie_to_dict(row) for row in rows]
ListOfDicts(op, args, rows) == Fetching(ListWithoutPoster(op, args, rows), rows)

\* the rows of a frame at the given positions, in that order
RowsAt(frame, positions) == [i \in DOMAIN positions |-> frame.rows[positions[i]]]

\* df[mask]: the positions of the rows that satisfy P, ascending
Where(mask) ==
    LET hit == {i \in DOMAIN mask : mask[i]}
    IN  [k \in 1..Cardinality(hit) |->
            CHOOSE i \in hit : Cardinality({j \in hit : j < i}) = k - 1]

(***************************************************************************)
(* search_movies (lines 232-245).                                          *)
(***************************************************************************)
\* Series.str.lower().str.contains(q, regex=False, na=False)
CleanTitleContains(row, q) ==
    row["clean_title"] # NaNStr /\ Contains(Lower(row["clean_title"]), q)

\* a search without the guard of line 234: on an object that is not loaded it
\* reads a column of a frame that is not there
SearchWithoutGuard(query, limit) ==
    LET op == "search_movies"
        args == <<query, limit>>
        query_lower == Strip(Lower(query))
        mask == [i \in DOMAIN df.rows |-> CleanTitleContains(df.rows[i], query_lower)]
    IN  IF Len(query_lower) < 2 THEN Returned(op, args, <<>>)
        ELSE IF ~is_loaded THEN Raised(op, args, "TypeError")
        ELSE IF "clean_title" \notin df.cols THEN Raised(op, args, "KeyError")
        ELSE ListWithoutPoster(op, args, RowsAt(df, Take(Where(mask), limit)))

\* a search that compares the query as typed, without strip()
SearchUnstripped(query, limit) ==
    LET op == "search_movies"
        args == <<query, limit>>
        query_lower == Lower(query)
        mask == [i \in DOMAIN df.rows |-> CleanTitleContains(df.rows[i], query_lower)]
    IN  IF ~is_loaded THEN Returned(op, args, <<>>)
        ELSE IF Len(query_lower) < 2 THEN Returned(op, args, <<>>)
        ELSE IF "clean_title" \notin df.cols THEN Raised(op, args, "KeyError")
        ELSE ListWithoutPoster(op, args, RowsAt(df, Take(Where(mask), limit)))

search_movies(query, limit) ==
    LET op == "search_movies"
        args == <<query, limit>>
        query_lower == Strip(Lower(query))
        mask == [i \in DOMAIN df.rows |-> CleanTitleContains(df.rows[i], query_lower)]
    IN  IF ~is_loaded THEN Returned(op, args, <<>>)
        ELSE IF Len(query_lower) < 2 THEN Returned(op, args, <<>>)
        ELSE IF "clean_title" \notin df.cols THEN Raised(op, args, "KeyError")
        ELSE ListWithoutPoster(op, args, RowsAt(df, Take(Where(mask), limit)))

(***************************************************************************)
(* get_movie_by_id (lines 247-256).                                        *)
(***************************************************************************)
get_movie_by_id(movie_id) ==
    LET op == "get_movie_by_id"
        args == <<movie_id>>
        P(row) == row["movieId"] = movie_id
    IN  IF ~is_loaded THEN Returned(op, args, None)
        ELSE IF "movieId" \notin df.cols THEN Raised(op, args, "KeyError")
        ELSE LET movie == Where([i \in DOMAIN df.rows |-> P(df.rows[i])])
             IN  IF movie = <<>> THEN Returned(op, args, None)
                 ELSE IF MovieToDictError(df.rows[movie[1]]) # NoError
                      THEN Raised(op, args, MovieToDictError(df.rows[movie[1]]))
                      ELSE Fetching(Returned(op, args, Some(_movie_to_dict(df.rows[movie[1]]))),
                                    <<df.rows[movie[1]]>>)

(***************************************************************************)
(* find_movie (lines 258-280): the label (index[0]) of the match, or None. *)
(***************************************************************************)
TitleIs(row, q) == Lower(row["title"]) = q

CleanTitleIs(row, q) == row["clean_title"] # NaNStr /\ Lower(row["clean_title"]) = q

\* a resolver that tries the substring match first, and then the exact ones
FindMovieContainsFirst(query) ==
    LET query_lower == Strip(Lower(query))
        exact_match == Where([i \in DOMAIN df.rows |-> TitleIs(df.rows[i], query_lower)])
        clean_match == Where([i \in DOMAIN df.rows |-> CleanTitleIs(df.rows[i], query_lower)])
        contains_match ==
            Where([i \in DOMAIN df.rows |-> CleanTitleContains(df.rows[i], query_lower)])
        return(v) == [raises |-> FALSE, idx |-> v]
    IN  IF ~is_loaded THEN return(None)
        ELSE IF contains_match # <<>> THEN return(Some(df.rows[contains_match[1]][Index]))
        ELSE IF exact_match # <<>> THEN return(Some(df.rows[exact_match[1]][Index]))
        ELSE IF clean_match # <<>> THEN return(Some(df.rows[clean_match[1]][Index]))
        ELSE return(None)

\* what find_movie does: it returns an ordinal or None, or raises KeyError on
\* a frame without the column it reads
FindMovie(query) ==
    LET query_lower == Strip(Lower(query))
        P1(row) == TitleIs(row, query_lower)
        P2(row) == CleanTitleIs(row, query_lower)
        P3(row) == CleanTitleContains(row, query_lower)
        return(v) == [raises |-> FALSE, idx |-> v]
        KeyError == [raises |-> TRUE, idx |-> None]
    IN  IF ~is_loaded THEN return(None)
        ELSE IF "title" \notin df.cols THEN KeyError
        ELSE LET exact_match == Where([i \in DOMAIN df.rows |-> P1(df.rows[i])])
             IN  IF exact_match # <<>> THEN return(Some(df.rows[exact_match[1]][Index]))
                 ELSE IF "clean_title" \notin df.cols THEN KeyError
                 ELSE LET clean_match == Where([i \in DOMAIN df.rows |-> P2(df.rows[i])])
                          contains_match == Where([i \in DOMAIN df.rows |-> P3(df.rows[i])])
                      IN  IF clean_match # <<>> THEN return(Some(df.rows[clean_match[1]][Index]))
                          ELSE IF contains_match # <<>>
                               THEN return(Some(df.rows[contains_match[1]][Index]))
                               ELSE return(None)

find_movie(query) ==
    LET found == FindMovie(query)
    IN  IF found.raises THEN Raised("find_movie", <<query>>, "KeyError")
        ELSE Returned("find_movie", <<query>>, found.idx)

(***************************************************************************)
(* get_recommendations (lines 282-323).                                    *)
(***************************************************************************)
\* the dict of lines 285, 291, 296 and 298
ErrorResult(message) == [error |-> message, recommendations |-> <<>>]

\* lines 305-306: the similarity of row idx of the index with each of its rows
SimilarityScores(idx) ==
    [i \in DOMAIN tfidf_matrix |-> CosineSimilarity(tfidf_matrix[idx + 1], tfidf_matrix[i])]

\* scores[i] < scores[j], for every pair of positions
ScoreLess(scores) ==
    [i \in DOMAIN scores |-> [j \in DOMAIN scores |-> FracLess(scores[i], scores[j])]]

\* -scores[i] < -scores[j], for every pair of positions
NegatedLess(scores) ==
    [i \in DOMAIN scores |-> [j \in DOMAIN scores |-> FracLess(scores[j], scores[i])]]

\* positions 1..n as ordinals 0..n-1
Ordinals(order) == [p \in DOMAIN order |-> order[p] - 1]

\* a ranking that forgets the [::-1]: ascending similarity
SimilarIndicesAscending(similarity_scores) ==
    Ordinals(ArgSort(ScoreLess(similarity_scores)))

\* a ranking by argsort(-scores): descending similarity, equal scores in the
\* order argsort leaves them in
SimilarIndicesOfNegated(similarity_scores) ==
    Ordinals(ArgSort(NegatedLess(similarity_scores)))

\* line 309: argsort()[::-1], as ordinals
SimilarIndices(similarity_scores) ==
    Ordinals(Reverse(ArgSort(ScoreLess(similarity_scores))))

\* a selection that keeps the query movie: similar_indices[:n_recommendations]
TakeWithoutExcluding(similar_indices, idx, n_recommendations) ==
    Take(similar_indices, n_recommendations)

\* a selection that cuts to n_recommendations before it drops the query movie
TakeThenExclude(similar_indices, idx, n_recommendations) ==
    LET NotIdx(i) == i # idx
    IN  SelectSeq(Take(similar_indices, n_recommendations), NotIdx)

\* line 310: [i for i in similar_indices if i != idx][:n_recommendations]
ExcludeAndTake(similar_indices, idx, n_recommendations) ==
    LET NotIdx(i) == i # idx
    IN  Take(SelectSeq(similar_indices, NotIdx), n_recommendations)

\* lines 300-323, once idx is known
Recommend(op, args, idx, n_recommendations) ==
    IF idx + 1 > Len(df.rows) THEN Raised(op, args, "IndexError")
    ELSE IF MovieToDictError(df.rows[idx + 1]) # NoError
    THEN Raised(op, args, MovieToDictError(df.rows[idx + 1]))
    ELSE IF idx + 1 > Len(tfidf_matrix)
    THEN Fetching(Raised(op, args, "IndexError"), <<df.rows[idx + 1]>>)
    ELSE LET similarity_scores == SimilarityScores(idx)
             similar_indices ==
                 ExcludeAndTake(SimilarIndices(similarity_scores), idx, n_recommendations)
             out == {p \in DOMAIN similar_indices : similar_indices[p] + 1 > Len(df.rows)}
             first_out == IF out = {} THEN Len(similar_indices) + 1
                          ELSE CHOOSE p \in out : \A q \in out : p <= q
             rows == [p \in 1..(first_out - 1) |-> df.rows[similar_indices[p] + 1]]
             converted == <<df.rows[idx + 1]>> \o rows
         IN  IF DictsError(rows) # NoError
             THEN Fetching(Raised(op, args, DictsError(rows)), converted)
             ELSE IF out # {} THEN Fetching(Raised(op, args, "IndexError"), converted)
             ELSE Fetching(
                    Returned(op, args,
                       [error |-> NoError,
                        selected_movie |-> Some(_movie_to_dict(df.rows[idx + 1])),
                        recommendations |->
                           [p \in DOMAIN rows |->
                               WithRank(_movie_to_dict(rows[p]), p,
                                        similarity_scores[similar_indices[p] + 1])]]),
                    converted)

\* a get_recommendations that consults the title first, and the id only when
\* no title is given
TitleBeforeId(movie_id, movie_title, n_recommendations) ==
    LET op == "get_recommendations"
        args == <<movie_id, movie_title, n_recommendations>>
    IN  IF ~is_loaded
        THEN Returned(op, args,
                ErrorResult(IF error_message # NoError THEN error_message ELSE "Data not loaded"))
        ELSE IF movie_title # None /\ movie_title[1] # <<>>
        THEN LET found == FindMovie(movie_title[1])
             IN  IF found.raises THEN Raised(op, args, "KeyError")
                 ELSE IF found.idx = None
                      THEN Returned(op, args, ErrorResult("Could not find movie"))
                      ELSE Recommend(op, args, found.idx[1], n_recommendations)
        ELSE IF movie_id # None
        THEN LET P(row) == row["movieId"] = movie_id[1]
                 movie_rows == Where([i \in DOMAIN df.rows |-> P(df.rows[i])])
             IN  IF movie_rows = <<>>
                 THEN Returned(op, args, ErrorResult("Movie not found"))
                 ELSE Recommend(op, args, df.rows[movie_rows[1]][Index], n_recommendations)
        ELSE Returned(op, args, ErrorResult("Please provide a movie ID or title"))

\* movie_id and movie_title are optional: None or Some(value)
get_recommendations(movie_id, movie_title, n_recommendations) ==
    LET op == "get_recommendations"
        args == <<movie_id, movie_title, n_recommendations>>
    IN  IF ~is_loaded
        THEN Returned(op, args,
                ErrorResult(IF error_message # NoError THEN error_message ELSE "Data not loaded"))
        ELSE IF movie_id # None
        THEN IF "movieId" \notin df.cols THEN Raised(op, args, "KeyError")
             ELSE LET P(row) == row["movieId"] = movie_id[1]
                      movie_rows == Where([i \in DOMAIN df.rows |-> P(df.rows[i])])
                  IN  IF movie_rows = <<>>
                      THEN Returned(op, args, ErrorResult("Movie not found"))
                      ELSE Recommend(op, args, df.rows[movie_rows[1]][Index], n_recommendations)
        ELSE IF movie_title # None /\ movie_title[1] # <<>>
        THEN LET found == FindMovie(movie_title[1])
             IN  IF found.raises THEN Raised(op, args, "KeyError")
                 ELSE IF found.idx = None
                      THEN Returned(op, args, ErrorResult("Could not find movie"))
                      ELSE Recommend(op, args, found.idx[1], n_recommendations)
        ELSE Returned(op, args, ErrorResult("Please provide a movie ID or title"))

(***************************************************************************)
(* The browse operations (lines 325-431).                                  *)
(***************************************************************************)
\* the characters in code point order, which is how Python compares strings
CharOrder ==
    <<"\t", " ", "(", ")", "-">> \o Digits \o UpperLetters \o <<"_">> \o LowerLetters \o <<"|">>

Code(c) == CHOOSE i \in DOMAIN CharOrder : CharOrder[i] = c

\* a < b for strings
RECURSIVE StrLess(_, _)
StrLess(a, b) ==
    IF b = <<>> THEN FALSE
    ELSE IF a = <<>> THEN TRUE
    ELSE IF Head(a) # Head(b) THEN Code(Head(a)) < Code(Head(b))
    ELSE StrLess(Tail(a), Tail(b))

\* DataFrame.nlargest(n, col): the n rows with the largest values, largest
\* first, the first of equal values first, rows without a value last
nlargest(frame, n, col) ==
    LET Less(i, j) ==
            \/ frame.rows[i][col] # NaN /\ frame.rows[j][col] = NaN
            \/ /\ frame.rows[i][col] # NaN
               /\ frame.rows[j][col] # NaN
               /\ frame.rows[i][col] > frame.rows[j][col]
        rows == DOMAIN frame.rows
    IN  Take(StableSort([i \in rows |-> [j \in rows |-> Less(i, j)]]), n)

\* DataFrame.sample(n=limit, random_state=42) draws limit of the m rows
\* without replacement: some arrangement of limit distinct positions
Samples(m, limit) ==
    {q \in [1..limit -> 1..m] : \A a, b \in 1..limit : a # b => q[a] # q[b]}

\* lines 325-340; sample is the arrangement the seeded generator draws
get_popular_movies(limit, sample) ==
    LET op == "get_popular_movies"
        args == <<limit>>
        sorted_df ==
            IF "popularity" \in df.cols
            THEN nlargest(df, limit * 2, "popularity")
            ELSE Take([i \in DOMAIN df.rows |-> i], limit * 2)
        sampled ==
            IF Len(sorted_df) > limit
            THEN [i \in 1..limit |-> sorted_df[sample[i]]]
            ELSE sorted_df
    IN  IF ~is_loaded THEN Returned(op, args, <<>>)
        ELSE ListOfDicts(op, args, RowsAt(df, sampled))

\* lines 342-351
get_top_rated_movies(limit, sample) ==
    LET op == "get_top_rated_movies"
        args == <<limit>>
    IN  IF ~is_loaded THEN Returned(op, args, <<>>)
        ELSE IF "rating" \in df.cols
        THEN ListOfDicts(op, args, RowsAt(df, nlargest(df, limit, "rating")))
        ELSE [get_popular_movies(limit, sample) EXCEPT !.op = op]

\* sorted(list(S)) for a set of strings
Sorted(S) ==
    [k \in 1..Cardinality(S) |->
        CHOOSE x \in S : Cardinality({y \in S : StrLess(y, x)}) = k - 1]

\* lines 353-363
get_all_genres ==
    LET op == "get_all_genres"
    IN  IF ~is_loaded THEN Returned(op, <<>>, <<>>)
        ELSE IF "genre_list" \notin df.cols THEN Raised(op, <<>>, "KeyError")
        ELSE Returned(op, <<>>,
                Sorted(UNION {Range(df.rows[i]["genre_list"]) : i \in DOMAIN df.rows}))

\* `genre in x` for the row's genre_list
HasGenre(row, genre) == genre \in Range(row["genre_list"])

\* lines 365-379
get_movies_by_genre(genre, limit) ==
    LET op == "get_movies_by_genre"
        args == <<genre, limit>>
        P(row) == HasGenre(row, genre)
    IN  IF ~is_loaded THEN Returned(op, args, <<>>)
        ELSE IF "genre_list" \notin df.cols THEN Raised(op, args, "KeyError")
        ELSE LET mask == [i \in DOMAIN df.rows |-> P(df.rows[i])]
                 filtered == [cols |-> df.cols, rows |-> RowsAt(df, Where(mask))]
             IN  ListOfDicts(op, args,
                    IF "rating" \in filtered.cols
                    THEN RowsAt(filtered, nlargest(filtered, limit, "rating"))
                    ELSE Take(filtered.rows, limit))

\* the runtime buckets of lines 401-408
InBucket(runtime, minutes) ==
    /\ minutes # NaN
    /\ CASE runtime = "short" -> minutes < 90
         [] runtime = "medium" -> minutes >= 90 /\ minutes <= 120
         [] runtime = "long" -> minutes > 120 /\ minutes <= 180
         [] runtime = "epic" -> minutes > 180
         [] OTHER -> TRUE

\* the missing value of a column of numbers or of strings, and a < b for two
\* of its values
Missing(dtype) == IF dtype = "object" THEN NaNStr ELSE NaN

ValueLess(dtype, a, b) == IF dtype = "object" THEN StrLess(a, b) ELSE a < b

\* a filter that forgets to sort: the rows stay in catalog order
Unsorted(rows, col, ascending, dtype) == rows

\* DataFrame.sort_values(col, ascending): pandas' nargsort. The rows with a
\* value are argsorted (reversed before and after for a descending sort), the
\* rows without one come last.
sort_values(rows, col, ascending, dtype) ==
    LET HasValue(row) == row[col] # Missing(dtype)
        NoValue(row) == ~HasValue(row)
        non_nan_idx == Where([i \in DOMAIN rows |-> HasValue(rows[i])])
        nan_idx == Where([i \in DOMAIN rows |-> NoValue(rows[i])])
        arranged == IF ascending THEN non_nan_idx ELSE Reverse(non_nan_idx)
        KeyLess(i, j) == ValueLess(dtype, rows[arranged[i]][col], rows[arranged[j]][col])
        order == ArgSort([i \in DOMAIN arranged |-> [j \in DOMAIN arranged |-> KeyLess(i, j)]])
        indexer == [p \in DOMAIN order |-> arranged[order[p]]]
    IN  [p \in 1..Len(rows) |->
            IF p <= Len(indexer)
            THEN rows[(IF ascending THEN indexer ELSE Reverse(indexer))[p]]
            ELSE rows[nan_idx[p - Len(indexer)]]]

\* lines 381-431. year_from and year_to are optional ints, min_rating is in
\* tenths, runtime and sort_by are the request's strings, genre is a string;
\* None, 0 and the empty string are the values the `if` tests skip
get_filtered_movies(year_from, year_to, min_rating, runtime, sort_by, genre, limit) ==
    LET op == "get_filtered_movies"
        args == <<year_from, year_to, min_rating, runtime, sort_by, genre, limit>>
        Passes(row) ==
            /\ (year_from # None /\ year_from[1] # 0) =>
                   (row["year"] # NaN /\ row["year"] >= year_from[1])
            /\ (year_to # None /\ year_to[1] # 0) =>
                   (row["year"] # NaN /\ row["year"] <= year_to[1])
            /\ min_rating > 0 => (row["rating"] # NaN /\ row["rating"] >= min_rating)
            /\ (runtime # "" /\ "runtime" \in df.cols) => InBucket(runtime, row["runtime"])
            /\ genre # <<>> => HasGenre(row, genre)
        filtered == RowsAt(df, Where([i \in DOMAIN df.rows |-> Passes(df.rows[i])]))
        sorted ==
            IF sort_by = "rating" /\ "rating" \in df.cols
            THEN sort_values(filtered, "rating", FALSE, "float64")
            ELSE IF sort_by = "year_desc" /\ "year" \in df.cols
            THEN sort_values(filtered, "year", FALSE, "float64")
            ELSE IF sort_by = "year_asc" /\ "year" \in df.cols
            THEN sort_values(filtered, "year", TRUE, "float64")
            ELSE IF sort_by = "title"
            THEN sort_values(filtered, "clean_title", TRUE, "object")
            ELSE IF "popularity" \in df.cols
            THEN sort_values(filtered, "popularity", FALSE, "float64")
            ELSE filtered
    IN  IF ~is_loaded THEN Returned(op, args, <<>>)
        ELSE IF \/ ((year_from # None /\ year_from[1] # 0) \/ (year_to # None /\ year_to[1] # 0))
                   /\ "year" \notin df.cols
                \/ min_rating > 0 /\ "rating" \notin df.cols
                \/ genre # <<>> /\ "genre_list" \notin df.cols
                \/ sort_by = "title" /\ "clean_title" \notin df.cols
        THEN Raised(op, args, "KeyError")
        ELSE ListOfDicts(op, args, Take(sorted, limit))

(***************************************************************************)
(* The calls. __init__ (lines 27-34) sets the attributes, which is the     *)
(* initial state, and calls load_data; every other call needs the object.  *)
(***************************************************************************)
Attributes ==
    /\ constructed = FALSE
    /\ df = None
    /\ tfidf_matrix = None
    /\ is_loaded = FALSE
    /\ error_message = NoError
    /\ ret = Returned("none", <<>>, None)

Construct(csv_path) ==
    /\ ~constructed
    /\ constructed' = TRUE
    /\ load_data(csv_path)
    /\ ret' = Returned("__init__", <<csv_path>>, None)
    /\ UNCHANGED <<fs, argsort_ties>>

LoadData(csv_path) ==
    /\ constructed
    /\ load_data(csv_path)
    /\ ret' = Returned("load_data", <<csv_path>>, None)
    /\ UNCHANGED <<fs, argsort_ties, constructed>>

\* a query that works on self.df itself: it leaves the frame reversed
QueryInPlace(result) ==
    /\ constructed
    /\ ret' = result
    /\ df' = IF is_loaded THEN [df EXCEPT !.rows = Reverse(df.rows)] ELSE df
    /\ UNCHANGED <<fs, argsort_ties, constructed, tfidf_matrix, is_loaded, error_message>>

\* a query: it returns or raises, and assigns no attribute
Query(result) ==
    /\ constructed
    /\ ret' = result
    /\ UNCHANGED <<fs, argsort_ties, constructed, df, tfidf_matrix, is_loaded, error_message>>

\* the first call on a new object
FirstQuery(result) == ret.op = "__init__" /\ Query(result)

\* a directory that holds one file
OnlyFile(name, table) == [f \in FileNames |-> IF f = name THEN Some(table) ELSE NoFile]

\* the orders a build's argsort can leave n equal keys in
TieOrders(n) == {f \in [1..n -> 1..n] : \A a, b \in 1..n : a # b => f[a] # f[b]}

\* the stable build: equal keys stay in position order
StableTies(n) == [i \in 1..n |-> i]

(***************************************************************************)
(* Ranking: catalogs of up to MaxMovies records over a pool of genre       *)
(* strings, under every order of ties; each run constructs the object and  *)
(* asks for the recommendations of one id, for every k up to MaxK.         *)
(***************************************************************************)
MaxMovies == 3
MaxK == 2

Drama == <<"D","r","a","m","a">>
War == <<"W","a","r">>
DramaWar == Drama \o <<"|">> \o War

RankGenres == {Drama, War, DramaWar, Sentinel}

RankTitles == << <<"A","a">>, <<"B","b">>, <<"C","c">>, <<"D","d">>, <<"E","e">> >>

\* the ids are unique (the catalog's primary key) and are not the ordinals
RankIds == <<7, 3, 9, 5, 1>>

RankTable(genres) ==
    [cols |-> required_cols,
     rows |-> [i \in DOMAIN genres |->
                 [movieId |-> RankIds[i], title |-> RankTitles[i], genres |-> genres[i]]]]

InitRanking ==
    /\ \E n \in 1..MaxMovies :
         /\ \E genres \in [1..n -> RankGenres] : fs = OnlyFile("movies.csv", RankTable(genres))
         /\ argsort_ties \in TieOrders(n)
    /\ Attributes

RecommendById ==
    \E i \in 1..MaxMovies, k \in 0..MaxK :
        FirstQuery(get_recommendations(Some(RankIds[i]), None, k))

NextRanking == Construct("tmdb_movies_processed.csv") \/ RecommendById

SpecRanking == InitRanking /\ [][NextRanking]_vars

(***************************************************************************)
(* Reading a result of get_recommendations.                                *)
(***************************************************************************)
\* the last call was get_recommendations and it returned a ranking
Recommended ==
    /\ ret.op = "get_recommendations"
    /\ ~ret.raised
    /\ ret.value.error = NoError

Recs == ret.value.recommendations

\* the ordinal of a returned record: titles are unique in a loaded catalog
OrdinalOf(movie) == (CHOOSE i \in DOMAIN df.rows : df.rows[i]["title"] = movie.title) - 1

QueryOrdinal == OrdinalOf(ret.value.selected_movie[1])

SameScore(a, b) == a.similarity = b.similarity

\* C1 as claimed: whenever two returned candidates have equal similarity
\* score, the one with the smaller catalog ordinal appears first.
C1_TiesAscendingOrdinal ==
    Recommended =>
        \A p, q \in DOMAIN Recs :
            (p < q /\ SameScore(Recs[p], Recs[q])) => OrdinalOf(Recs[p]) < OrdinalOf(Recs[q])

\* C1 as amended: the ranking is argsort()[::-1], so two returned candidates
\* with equal similarity appear in the reverse of the order argsort leaves
\* them in; under a stable argsort that is descending catalog ordinal.
C1_TiesReversed ==
    Recommended =>
        \A p, q \in DOMAIN Recs :
            (p < q /\ SameScore(Recs[p], Recs[q])) =>
                /\ argsort_ties[OrdinalOf(Recs[p]) + 1] > argsort_ties[OrdinalOf(Recs[q]) + 1]
                /\ argsort_ties = StableTies(Len(df.rows)) =>
                       OrdinalOf(Recs[p]) > OrdinalOf(Recs[q])

\* two candidates of equal similarity were returned by a build whose argsort
\* is stable, the larger ordinal first
C1_Witness ==
    /\ Recommended
    /\ argsort_ties = StableTies(Len(df.rows))
    /\ \E p, q \in DOMAIN Recs :
         /\ p < q
         /\ SameScore(Recs[p], Recs[q])
         /\ OrdinalOf(Recs[p]) > OrdinalOf(Recs[q])

\* C2: the recommendations are sorted by descending similarity (for every
\* adjacent pair (a, b), score(a) >= score(b)), and no record left out of the
\* top k has a score strictly greater than a returned one.
C2_SortedDescending ==
    Recommended =>
        LET returned == {OrdinalOf(Recs[p]) : p \in DOMAIN Recs}
            left_out == {j \in 0..(Len(df.rows) - 1) : j # QueryOrdinal /\ j \notin returned}
            score(j) == CosineSimilarity(tfidf_matrix[QueryOrdinal + 1], tfidf_matrix[j + 1])
        IN  /\ \A p \in 1..(Len(Recs) - 1) :
                   ~FracLess(Recs[p].similarity, Recs[p + 1].similarity)
            /\ \A p \in DOMAIN Recs : Recs[p].similarity = score(OrdinalOf(Recs[p]))
            /\ \A p \in DOMAIN Recs, j \in left_out :
                   ~FracLess(Recs[p].similarity, score(j))

\* two candidates were returned, the first of a strictly greater score than
\* the second, which comes before it in the catalog
C2_Witness ==
    /\ Recommended
    /\ Len(Recs) = 2
    /\ FracLess(Recs[2].similarity, Recs[1].similarity)
    /\ OrdinalOf(Recs[2]) < OrdinalOf(Recs[1])

Min(a, b) == IF a < b THEN a ELSE b

\* C4: for a loaded catalog of N records and a resolvable query movie,
\* get_recommendations returns exactly min(k, N - 1) results: all N - 1 other
\* records when k exceeds N - 1, with no padding and no error.
C4_TopK ==
    /\ Recommended => Len(Recs) = Min(ret.args[3], Len(df.rows) - 1)
    /\ (/\ ret.op = "get_recommendations"
        /\ is_loaded
        /\ ret.args[1] # None
        /\ \E i \in DOMAIN df.rows : df.rows[i]["movieId"] = ret.args[1][1])
       => Recommended

\* k exceeded N - 1 on a catalog of two records or more, and the N - 1 others
\* were returned
C4_Witness ==
    /\ Recommended
    /\ Len(df.rows) >= 2
    /\ ret.args[3] > Len(df.rows) - 1
    /\ Len(Recs) = Len(df.rows) - 1

(***************************************************************************)
(* Resolving: catalogs of up to MaxMovies distinct titles of a pool; each  *)
(* run constructs the object and resolves one query.                       *)
(***************************************************************************)
Up2009 == <<"U","p"," ","(","2","0","0","9",")">>
Up == <<"U","p">>
UPPER == <<"U","P">>
Cup2013 == <<"C","u","p"," ","(","2","0","1","3",")">>

\* a title that ends with a space, which read_csv keeps
UpSpace == <<"U","p"," ">>

TitlePool == {Up2009, Up, UPPER, Cup2013, UpSpace}

TitleQueries ==
    {<<"u","p"," ","(","2","0","0","9",")">>, <<" ","U","P"," ">>, <<"c","u","p">>,
     <<"p">>, <<"z","z">>, <<>>}

TitleTable(titles) ==
    [cols |-> required_cols,
     rows |-> [i \in DOMAIN titles |->
                 [movieId |-> RankIds[i], title |-> titles[i], genres |-> Drama]]]

InitResolver ==
    /\ \E n \in 1..MaxMovies :
         /\ \E titles \in [1..n -> TitlePool] :
              /\ \A a, b \in 1..n : a # b => titles[a] # titles[b]
              /\ fs = OnlyFile("movies.csv", TitleTable(titles))
         /\ argsort_ties = StableTies(n)
    /\ Attributes

Resolve == \E query \in TitleQueries : FirstQuery(find_movie(query))

NextResolver == Construct("tmdb_movies_processed.csv") \/ Resolve

SpecResolver == InitResolver /\ [][NextResolver]_vars

\* the smallest position of a non-empty set of positions, as an ordinal
FirstOrdinal(S) == (CHOOSE i \in S : \A j \in S : i <= j) - 1

Title(name, year) == name \o <<" ", "(">> \o year \o <<")">>

Y2009 == <<"2","0","0","9">>
Y2013 == <<"2","0","1","3">>
Y1985 == <<"1","9","8","5">>
Y1998 == <<"1","9","9","8">>

\* a file with the required columns only; it repeats a title and has a row
\* without genres
Basic ==
    [cols |-> required_cols,
     rows |-> << [movieId |-> 1, title |-> Title(<<"U","p">>, Y2009), genres |-> DramaWar],
                 [movieId |-> 2, title |-> Title(<<"C","u","p">>, Y2013), genres |-> Drama],
                 [movieId |-> 3, title |-> Title(<<"U","p">>, Y2009), genres |-> War],
                 [movieId |-> 4, title |-> <<"H","e","a","t">>, genres |-> NaNStr] >>]

RichCols == required_cols \cup {"rating", "vote_count", "popularity", "overview", "runtime"}

\* a file with the optional columns; its second row has all of them empty but
\* vote_count, its third row has vote_count empty
Rich ==
    [cols |-> RichCols,
     rows |-> << [movieId |-> 11, title |-> Title(<<"R","a","n">>, Y1985), genres |-> DramaWar,
                  rating |-> 82, vote_count |-> 900, popularity |-> 300,
                  overview |-> "An old lord divides his realm.", runtime |-> 162],
                 [movieId |-> 12, title |-> <<"B","i","g">>, genres |-> Drama,
                  rating |-> NaN, vote_count |-> 500, popularity |-> NaN,
                  overview |-> NaNText, runtime |-> NaN],
                 [movieId |-> 13, title |-> Title(<<"P","i">>, Y1998), genres |-> War,
                  rating |-> 82, vote_count |-> NaN, popularity |-> 300,
                  overview |-> "A number hides in everything.", runtime |-> 84] >>]

\* a file none of whose rows lists a genre: fit_transform finds no term
Unlisted ==
    [cols |-> required_cols,
     rows |-> << [movieId |-> 21, title |-> <<"E","d">>, genres |-> Sentinel],
                 [movieId |-> 22, title |-> <<"I","f">>, genres |-> Sentinel],
                 [movieId |-> 23, title |-> <<"G","o">>, genres |-> Sentinel] >>]

\* a file with a rating column
Enhanced ==
    [cols |-> required_cols \cup {"rating"},
     rows |-> << [movieId |-> 31, title |-> <<"K","e","s">>, genres |-> Drama, rating |-> 75] >>]

\* a file without the genres column
NoGenres ==
    [cols |-> {"movieId", "title"},
     rows |-> << [movieId |-> 41, title |-> <<"A","l","i">>] >>]

\* what each file holds when it is there
Content ==
    [f \in FileNames |->
        CASE f = "tmdb_movies_processed.csv" -> Rich
          [] f = "custom.csv" -> Basic
          [] f = "movies_with_posters.csv" -> Unlisted
          [] f = "movies_enhanced.csv" -> Enhanced
          [] f = "movies.csv" -> NoGenres]

\* the paths the object is given: the default and another
CsvPaths == {"tmdb_movies_processed.csv", "custom.csv"}

\* the longest catalog among the files
MaxRows == 3

Init ==
    /\ \E present \in SUBSET FileNames :
         fs = [f \in FileNames |-> IF f \in present THEN Some(Content[f]) ELSE NoFile]
    /\ argsort_ties \in {StableTies(MaxRows), Reverse(StableTies(MaxRows))}
    /\ Attributes

\* the arrangements sample() can draw when get_popular_movies reaches line 337
Draws(limit) ==
    IF is_loaded /\ Min(Len(df.rows), limit * 2) > limit
    THEN Samples(Min(Len(df.rows), limit * 2), limit)
    ELSE {<<>>}

New == \E csv_path \in CsvPaths : Construct(csv_path)

Reload == \E csv_path \in CsvPaths : LoadData(csv_path)

SearchMovies ==
    \E query \in {<<"U","p">>, <<" ","g"," ">>} : Query(search_movies(query, 10))

GetMovieById == \E movie_id \in {1, 12, 99} : Query(get_movie_by_id(movie_id))

FindMovieCall == \E query \in {<<"u","p">>, <<"G","o">>} : Query(find_movie(query))

GetRecommendations ==
    \/ \E movie_id \in {1, 12, 13, 99} : Query(get_recommendations(Some(movie_id), None, 20))
    \/ \E title \in {<<"g","o">>, <<"z","z">>, <<>>} :
         Query(get_recommendations(None, Some(title), 20))
    \/ Query(get_recommendations(None, None, 20))

GetPopularMovies ==
    \E limit \in {1, 20} : \E sample \in Draws(limit) :
        Query(get_popular_movies(limit, sample))

GetTopRatedMovies ==
    \E limit \in {1, 12} : \E sample \in Draws(limit) :
        Query(get_top_rated_movies(limit, sample))

GetAllGenres == Query(get_all_genres)

GetMoviesByGenre == \E genre \in {Drama, War} : Query(get_movies_by_genre(genre, 20))

GetFilteredMovies ==
    \/ Query(get_filtered_movies(None, None, 0, "", "popularity", <<>>, 50))
    \/ Query(get_filtered_movies(Some(1990), Some(2010), 0, "", "year_desc", <<>>, 50))
    \/ Query(get_filtered_movies(None, None, 75, "long", "rating", Drama, 50))
    \/ Query(get_filtered_movies(Some(0), None, 0, "short", "title", <<>>, 1))

Next ==
    \/ New
    \/ Reload
    \/ SearchMovies
    \/ GetMovieById
    \/ FindMovieCall
    \/ GetRecommendations
    \/ GetPopularMovies
    \/ GetTopRatedMovies
    \/ GetAllGenres
    \/ GetMoviesByGenre
    \/ GetFilteredMovies

Spec == Init /\ [][Next]_vars

(***************************************************************************)
(* Reading the last call.                                                  *)
(***************************************************************************)
LoadOps == {"__init__", "load_data"}

QueryOps ==
    {"search_movies", "get_movie_by_id", "find_movie", "get_recommendations",
     "get_popular_movies", "get_top_rated_movies", "get_all_genres",
     "get_movies_by_genre", "get_filtered_movies"}

ListOps ==
    {"search_movies", "get_popular_movies", "get_top_rated_movies",
     "get_movies_by_genre", "get_filtered_movies"}

\* the last call was a load and it failed
LoadFailed == ret.op \in LoadOps /\ LoadError(ret.args[1]) # NoError

\* C6: every call of load_data that fails (no file, required columns missing,
\* a later step raising) ends with is_loaded false and an error message
\* recorded, and does not raise: for every call of any sequence of loads, a
\* failing load after a successful one included.
C6_FailedLoadNotLoaded ==
    LoadFailed => (~is_loaded /\ error_message # NoError /\ ~ret.raised)

\* C7: whenever is_loaded holds, tfidf_matrix has exactly one vector per row
\* of df, built from the rows of df in their order, after any sequence of
\* successful and failed loads; so every ordinal find_movie returns is a row
\* of the index.
C7_IndexMatchesCatalog ==
    is_loaded =>
        /\ Len(tfidf_matrix) = Len(df.rows)
        /\ "genres_processed" \in df.cols
        /\ tfidf_matrix = fit_transform(Docs(df))
        /\ (ret.op = "find_movie" /\ ~ret.raised /\ ret.value # None) =>
               ret.value[1] + 1 <= Len(tfidf_matrix)

\* C8: while is_loaded is false every query returns its empty result (an
\* empty list, None, or for get_recommendations an error with an empty list
\* of recommendations) and does not raise; and is_loaded only becomes true
\* in a load that succeeds.
C8_UnloadedQueries ==
    /\ [](( ~is_loaded /\ ret.op \in QueryOps) =>
            /\ ~ret.raised
            /\ IF ret.op = "get_recommendations"
               THEN ret.value.error # NoError /\ ret.value.recommendations = <<>>
               ELSE ret.value = <<>>)
    /\ [][(~is_loaded /\ is_loaded') =>
            (ret'.op \in LoadOps /\ LoadError(ret'.args[1]) = NoError)]_vars

\* a load failed on a file without the required columns, which left that
\* file's table in df, and a search on the object then returned the empty list
C8_Witness ==
    /\ ~is_loaded
    /\ error_message = "Error loading data: CSV must contain columns"
    /\ ret.op = "search_movies"
    /\ Len(Strip(ret.args[1])) >= 2
    /\ ~ret.raised
    /\ ret.value = <<>>

\* the records the last call returned
ReturnedMovies ==
    IF ret.raised \/ ret.op \notin QueryOps THEN {}
    ELSE IF ret.op \in ListOps THEN Range(ret.value)
    ELSE IF ret.op = "get_movie_by_id" THEN Range(ret.value)
    ELSE IF ret.op = "get_recommendations" /\ ret.value.error = NoError
    THEN Range(ret.value.selected_movie) \cup
         {[k \in DOMAIN ret.value.selected_movie[1] |-> m[k]] : m \in Range(ret.value.recommendations)}
    ELSE {}

\* the row of the files the record with this id was read from
SourceRow(id) ==
    CHOOSE row \in UNION {Range(fs[f][1].rows) : f \in {g \in FileNames : Exists(g)}} :
        row["movieId"] = id

Lacks(row, col, missing) == col \notin DOMAIN row \/ row[col] = missing

\* the row of df a returned record was made from
FrameRow(id) == CHOOSE row \in Range(df.rows) : row["movieId"] = id

\* C9: a record whose source row has no value for an optional field is
\* reported with the default (rating 7.0, vote_count 1000, the placeholder
\* overview) by every query that returns it, and is held with popularity
\* 50.0; and no query raises because the value is missing.
C9_DefaultsForMissing ==
    /\ \A movie \in ReturnedMovies :
         /\ Lacks(SourceRow(movie.id), "rating", NaN) => movie.rating = 70
         /\ Lacks(SourceRow(movie.id), "vote_count", NaN) => movie.vote_count = 1000
         /\ Lacks(SourceRow(movie.id), "overview", NaNText) =>
                movie.overview = "A great movie to watch!"
         /\ (Lacks(SourceRow(movie.id), "popularity", NaN) /\ "popularity" \in df.cols) =>
                FrameRow(movie.id)["popularity"] = 500
    /\ ~(ret.op \in QueryOps /\ ret.raised /\ ret.value = "ValueError")

(***************************************************************************)
(* Genre strings: catalogs whose first record has a genre string of up to  *)
(* MaxParts parts of a pool, joined by "|".                                *)
(***************************************************************************)
MaxParts == 2

GenreParts ==
    {Drama, <<" ">> \o War, <<>>, <<" ">>, Sentinel, <<" ">> \o Sentinel}

RECURSIVE Join(_)
Join(parts) ==
    IF Len(parts) = 1 THEN parts[1]
    ELSE parts[1] \o <<"|">> \o Join(Tail(parts))

\* the second record lists a genre, so that the index has a term
GenreTable(genres) ==
    [cols |-> required_cols,
     rows |-> << [movieId |-> 1, title |-> <<"A","a">>, genres |-> genres],
                 [movieId |-> 2, title |-> <<"B","b">>, genres |-> Drama] >>]

\* read_csv gives NaN for an empty cell, never the empty string
InitGenres ==
    /\ \E n \in 1..MaxParts : \E parts \in [1..n -> GenreParts] :
         /\ Join(parts) # <<>>
         /\ fs = OnlyFile("movies.csv", GenreTable(Join(parts)))
    /\ argsort_ties = StableTies(MaxRows)
    /\ Attributes

GenresOfFirst == FirstQuery(get_movie_by_id(1))

AllGenres == FirstQuery(get_all_genres)

NextGenres == Construct("tmdb_movies_processed.csv") \/ GenresOfFirst \/ AllGenres

SpecGenres == InitGenres /\ [][NextGenres]_vars

IsGenreTag(g) == g # <<>> /\ g # Sentinel

\* C10: for every loaded record, genre_list is the genre string split at "|",
\* each part trimmed, in the original order, without the sentinel
\* "(no genres listed)" and without empty parts; genre_list never contains an
\* empty string or the sentinel, and neither does what the queries report.
C10_GenreTags ==
    /\ is_loaded =>
         \A i \in DOMAIN df.rows :
            LET parts == Split(df.rows[i]["genres"], "|")
                trimmed == [k \in DOMAIN parts |-> Strip(parts[k])]
                tags == df.rows[i]["genre_list"]
            IN  /\ tags = SelectSeq(trimmed, IsGenreTag)
                /\ \A k \in DOMAIN tags : IsGenreTag(tags[k])
    /\ (ret.op = "get_all_genres" /\ ~ret.raised) =>
         \A k \in DOMAIN ret.value : IsGenreTag(ret.value[k])
    /\ (ret.op = "get_movie_by_id" /\ ~ret.raised /\ ret.value # None) =>
         \A k \in DOMAIN ret.value[1].genres : IsGenreTag(ret.value[1].genres[k])

(***************************************************************************)
(* Catalogs: files of up to MaxMovies rows whose titles and genres come    *)
(* from pools that hold the empty cell, with or without the columns        *)
(* clean_title and year; each run constructs the object and makes one      *)
(* call.                                                                   *)
(***************************************************************************)
\* a title with whitespace around it and none before the year
CupPadded == <<" ","C","u","p","(","2","0","1","3",")"," ">>

CatalogTitles == {Up2009, Up, CupPadded, NaNStr}

CatalogGenres == {Drama, NaNStr}

Old == <<"O","l","d">>

\* a file with the required columns, and with the columns clean_title and
\* year when carried
CatalogTable(titles, genres, carried) ==
    [cols |-> required_cols \cup (IF carried THEN {"clean_title", "year"} ELSE {}),
     rows |-> [i \in DOMAIN titles |->
                 LET row == [movieId |-> RankIds[i], title |-> titles[i], genres |-> genres[i]]
                 IN  IF carried
                     THEN ("clean_title" :> Old) @@ ("year" :> 1999) @@ row
                     ELSE row]]

InitCatalog ==
    /\ \E n \in 1..MaxMovies :
         \E titles \in [1..n -> CatalogTitles], genres \in [1..n -> CatalogGenres],
            carried \in BOOLEAN :
             fs = OnlyFile("movies.csv", CatalogTable(titles, genres, carried))
    /\ argsort_ties = StableTies(MaxRows)
    /\ Attributes

FindInCatalog ==
    \E query \in {<<"u","p">>, <<"C","U","P">>, Old} : FirstQuery(find_movie(query))

FirstOfCatalog == FirstQuery(get_movie_by_id(RankIds[1]))

NextCatalog == Construct("movies.csv") \/ FindInCatalog \/ FirstOfCatalog

SpecCatalog == InitCatalog /\ [][NextCatalog]_vars

\* the rows of the one file of the directory, as the file has them
SourceRows == fs[CHOOSE f \in FileNames : Exists(f)][1].rows

\* the row has a title and a genre string
Complete(row) == row["title"] # NaNStr /\ row["genres"] # NaNStr

\* the positions of the rows a load keeps: complete, and no complete row
\* before them has their title
KeptRows ==
    {i \in DOMAIN SourceRows :
        /\ Complete(SourceRows[i])
        /\ \A j \in 1..(i - 1) :
             Complete(SourceRows[j]) => SourceRows[j]["title"] # SourceRows[i]["title"]}

\* the k-th of the kept positions
KeptRow(k) == CHOOSE i \in KeptRows : Cardinality({j \in KeptRows : j < i}) = k - 1

\* C11: after a successful load the catalog holds exactly the source rows
\* that have a title and a genre string, the first of each title only, in
\* source order, and the records are labelled 0 .. N-1 without gaps, which
\* are the ordinals find_movie answers with.
C11_CatalogRows ==
    is_loaded =>
        /\ Len(df.rows) = Cardinality(KeptRows)
        /\ \A k \in DOMAIN df.rows :
             /\ df.rows[k]["movieId"] = SourceRows[KeptRow(k)]["movieId"]
             /\ df.rows[k]["title"] = SourceRows[KeptRow(k)]["title"]
             /\ df.rows[k]["genres"] = SourceRows[KeptRow(k)]["genres"]
             /\ df.rows[k][Index] = k - 1
        /\ (ret.op = "find_movie" /\ ~ret.raised /\ ret.value # None) =>
               ret.value[1] \in 0..(Len(df.rows) - 1)

\* of three rows the first has no genres and the third repeats the title of
\* the second: the catalog is the second row, at ordinal 0, and it was found
C11_Witness ==
    /\ is_loaded
    /\ Len(SourceRows) = 3
    /\ SourceRows[1]["genres"] = NaNStr
    /\ SourceRows[1]["title"] # NaNStr
    /\ SourceRows[3]["title"] = SourceRows[2]["title"]
    /\ Complete(SourceRows[3])
    /\ Len(df.rows) = 1
    /\ df.rows[1]["movieId"] = SourceRows[2]["movieId"]
    /\ ret.op = "find_movie"
    /\ ret.value = Some(0)

\* the columns of the one file of the directory
SourceCols == fs[CHOOSE f \in FileNames : Exists(f)][1].cols

\* the row of the file a record of the catalog was read from
SourceOf(row) == CHOOSE src \in Range(SourceRows) : src["movieId"] = row["movieId"]

\* title_raw without a "(YYYY)" at its end, trimmed
TitleWithoutYear(title) ==
    LET t == Strip(title)
        n == Len(t)
    IN  IF n >= 6 /\ t[n - 5] = "(" /\ t[n] = ")" /\ \A j \in (n - 4)..(n - 1) : IsDigit(t[j])
        THEN Strip(SubSeq(t, 1, n - 6))
        ELSE t

\* the number of the first "(YYYY)" of title_raw, NaN when it has none
YearOfTitle(title) ==
    LET at == {i \in DOMAIN title : YearAt(title, i)}
        i == CHOOSE k \in at : \A j \in at : k <= j
    IN  IF at = {} THEN NaN
        ELSE 1000 * DigitVal(title[i + 1]) + 100 * DigitVal(title[i + 2])
             + 10 * DigitVal(title[i + 3]) + DigitVal(title[i + 4])

\* the record get_movie_by_id returned has the clean title and the year of
\* its row of the catalog
ReportsCatalogRow ==
    (ret.op = "get_movie_by_id" /\ ~ret.raised /\ ret.value # None) =>
        \E k \in DOMAIN df.rows :
            /\ df.rows[k]["movieId"] = ret.value[1].id
            /\ df.rows[k]["clean_title"] = ret.value[1].clean_title
            /\ df.rows[k]["year"] = ret.value[1].year

\* C12 as claimed: for every loaded record, clean_title is title_raw with a
\* trailing "(YYYY)" stripped and whitespace trimmed, and year is the number
\* of the "(YYYY)" of title_raw or absent: functions of title_raw alone,
\* whatever other columns the source carries.
C12_DerivedFromTitle ==
    is_loaded =>
        /\ \A k \in DOMAIN df.rows :
             /\ df.rows[k]["clean_title"] = TitleWithoutYear(df.rows[k]["title"])
             /\ df.rows[k]["year"] = YearOfTitle(df.rows[k]["title"])
        /\ ReportsCatalogRow

\* C12 as amended: clean_title and year are those functions of title_raw for
\* a source that has no column of that name; a source that carries the
\* column gives the record the value of its cell, whatever the title is.
C12_DerivedUnlessCarried ==
    is_loaded =>
        /\ \A k \in DOMAIN df.rows :
             /\ df.rows[k]["clean_title"] =
                    IF "clean_title" \in SourceCols
                    THEN SourceOf(df.rows[k])["clean_title"]
                    ELSE TitleWithoutYear(df.rows[k]["title"])
             /\ df.rows[k]["year"] =
                    IF "year" \in SourceCols
                    THEN SourceOf(df.rows[k])["year"]
                    ELSE YearOfTitle(df.rows[k]["title"])
        /\ ReportsCatalogRow

\* a record read from a file that carries the two columns was returned with
\* the clean title and the year of the file, which are not those of its title
C12_Witness ==
    /\ is_loaded
    /\ "clean_title" \in SourceCols
    /\ ret.op = "get_movie_by_id"
    /\ ret.value # None
    /\ ret.value[1].title = Up2009
    /\ ret.value[1].clean_title = Old
    /\ ret.value[1].year = 1999

(***************************************************************************)
(* Filtering: catalogs of up to MaxMovies distinct rows of a pool, with or *)
(* without a runtime column, under two orders of ties; each run constructs *)
(* the object and asks for one filtered list.                              *)
(***************************************************************************)
\* rows with equal ratings, equal popularities, empty cells and no year
FilterRows ==
    { [movieId |-> 1, title |-> Title(<<"A","a">>, <<"1","9","9","0">>), genres |-> Drama,
       rating |-> 80, popularity |-> 300, runtime |-> 80],
      [movieId |-> 2, title |-> Title(<<"B","b">>, <<"2","0","0","0">>), genres |-> War,
       rating |-> 60, popularity |-> 300, runtime |-> 130],
      [movieId |-> 3, title |-> <<"C","c">>, genres |-> DramaWar,
       rating |-> NaN, popularity |-> NaN, runtime |-> NaN],
      [movieId |-> 4, title |-> Title(<<"D","d">>, <<"2","0","1","0">>), genres |-> Drama,
       rating |-> 80, popularity |-> 100, runtime |-> 150] }

WithoutRuntime(row) == [c \in DOMAIN row \ {"runtime"} |-> row[c]]

FilterTable(rows, with_runtime) ==
    IF with_runtime
    THEN [cols |-> required_cols \cup {"rating", "popularity", "runtime"}, rows |-> rows]
    ELSE [cols |-> required_cols \cup {"rating", "popularity"},
          rows |-> [i \in DOMAIN rows |-> WithoutRuntime(rows[i])]]

InitFilter ==
    /\ \E n \in 1..MaxMovies : \E rows \in [1..n -> FilterRows], with_runtime \in BOOLEAN :
         /\ \A a, b \in 1..n : a # b => rows[a] # rows[b]
         /\ fs = OnlyFile("movies.csv", FilterTable(rows, with_runtime))
    /\ argsort_ties \in {StableTies(MaxRows + 1), Reverse(StableTies(MaxRows + 1))}
    /\ Attributes

Filter ==
    \E year_from \in {None, Some(2000), Some(2050)}, year_to \in {None, Some(2000)},
       min_rating \in {0, 70}, runtime \in {"", "long"},
       sort_by \in {"rating", "year_desc", "year_asc", "title", "popularity"},
       genre \in {<<>>, Drama}, limit \in {1, 40} :
        FirstQuery(get_filtered_movies(year_from, year_to, min_rating, runtime,
                                       sort_by, genre, limit))

NextFilter == Construct("movies.csv") \/ Filter

SpecFilter == InitFilter /\ [][NextFilter]_vars

\* the last call was get_filtered_movies on a loaded object
Filtered == ret.op = "get_filtered_movies" /\ is_loaded

\* the record satisfies the criteria of the last call that can be tested on
\* it; the runtime bucket can when the flag says so
Satisfies(row, runtime_tested) ==
    LET year_from == ret.args[1]
        year_to == ret.args[2]
        min_rating == ret.args[3]
        runtime == ret.args[4]
        genre == ret.args[6]
    IN  /\ (year_from # None /\ year_from[1] # 0) =>
               (row["year"] # NaN /\ row["year"] >= year_from[1])
        /\ (year_to # None /\ year_to[1] # 0) =>
               (row["year"] # NaN /\ row["year"] <= year_to[1])
        /\ min_rating > 0 => (row["rating"] # NaN /\ row["rating"] >= min_rating)
        /\ (runtime = "long" /\ runtime_tested) =>
               /\ "runtime" \in DOMAIN row
               /\ row["runtime"] # NaN
               /\ row["runtime"] > 120
               /\ row["runtime"] <= 180
        /\ genre # <<>> => genre \in Range(row["genre_list"])

\* row a comes strictly before row b in the order of the requested sort key;
\* a record without the key comes after those that have it
SortsBefore(a, b) ==
    LET sort_by == ret.args[5]
        Desc(col) == a[col] # NaN /\ (b[col] = NaN \/ a[col] > b[col])
        Asc(col) == a[col] # NaN /\ (b[col] = NaN \/ a[col] < b[col])
    IN  CASE sort_by = "rating" -> Desc("rating")
          [] sort_by = "year_desc" -> Desc("year")
          [] sort_by = "year_asc" -> Asc("year")
          [] sort_by = "title" -> StrLess(a["clean_title"], b["clean_title"])
          [] OTHER -> Desc("popularity")

\* the result is the first `limit` of the records that satisfy the criteria,
\* in the order of the sort key
FirstOfSorted(runtime_tested) ==
    LET matching == {k \in DOMAIN df.rows : Satisfies(df.rows[k], runtime_tested)}
        limit == ret.args[7]
        Row(p) == FrameRow(ret.value[p].id)
    IN  /\ ~ret.raised
        /\ Len(ret.value) = Min(limit, Cardinality(matching))
        /\ \A p \in DOMAIN ret.value : \E k \in matching : df.rows[k] = Row(p)
        /\ \A p, q \in DOMAIN ret.value : p < q => (Row(p) # Row(q) /\ ~SortsBefore(Row(q), Row(p)))
        /\ \A p \in DOMAIN ret.value, k \in matching :
               SortsBefore(df.rows[k], Row(p)) => \E q \in DOMAIN ret.value : Row(q) = df.rows[k]

\* C13 as claimed: get_filtered_movies returns exactly the first `limit`
\* records, in the order of the requested sort key, of the records that
\* satisfy every supplied criterion (year range, minimum rating, runtime
\* bucket, genre); criteria no record satisfies give an empty list, no error.
C13_FilterSortLimit == Filtered => FirstOfSorted(TRUE)

\* C13 as amended: the same, the runtime bucket being a criterion only when
\* the catalog has a runtime column; without one it is ignored.
C13_FilterSortLimitRuntimeColumn == Filtered => FirstOfSorted("runtime" \in df.cols)

\* of the two records that passed a year and a runtime criterion, the one
\* limit 1 kept is the better rated, which is the later in the catalog
C13_Witness ==
    /\ Filtered
    /\ ~ret.raised
    /\ ret.args[1] = Some(2000)
    /\ ret.args[4] = "long"
    /\ ret.args[5] = "rating"
    /\ ret.args[7] = 1
    /\ "runtime" \in df.cols
    /\ Len(df.rows) >= 3
    /\ Cardinality({k \in DOMAIN df.rows : Satisfies(df.rows[k], TRUE)}) = 2
    /\ Len(ret.value) = 1
    /\ \E k \in DOMAIN df.rows :
         /\ Satisfies(df.rows[k], TRUE)
         /\ df.rows[k][Index] < FrameRow(ret.value[1].id)[Index]

(***************************************************************************)
(* Search: catalogs of up to MaxMovies distinct titles of the pool; each   *)
(* run constructs the object and searches once.                            *)
(***************************************************************************)
SearchQueries ==
    {<<"u","p">>, <<"U","P">>, <<"u","p"," ">>, <<" ","c"," ">>, <<"u">>, <<"z","z">>,
     <<"p"," ","(">>}

InitSearch ==
    /\ \E n \in 1..MaxMovies :
         /\ \E titles \in [1..n -> TitlePool] :
              /\ \A a, b \in 1..n : a # b => titles[a] # titles[b]
              /\ fs = OnlyFile("movies.csv", TitleTable(titles))
         /\ argsort_ties = StableTies(n)
    /\ Attributes

Search ==
    \E query \in SearchQueries, limit \in {1, 2, 10} : FirstQuery(search_movies(query, limit))

NextSearch == Construct("movies.csv") \/ Search

SpecSearch == InitSearch /\ [][NextSearch]_vars

\* the last call was search_movies on a loaded object
Searched == ret.op = "search_movies" /\ is_loaded

\* the result is empty when q is shorter than 2 characters, and otherwise the
\* first `limit` records, in catalog order, whose clean title contains q
\* whatever the case of the letters
FirstContaining(q) ==
    LET limit == ret.args[2]
        containing == {k \in DOMAIN df.rows :
                          Contains(Lower(df.rows[k]["clean_title"]), Lower(q))}
        Before(k) == Cardinality({j \in containing : j < k})
    IN  /\ ~ret.raised
        /\ Len(q) < 2 => ret.value = <<>>
        /\ Len(q) >= 2 =>
               /\ Len(ret.value) = Min(limit, Cardinality(containing))
               /\ \A p \in DOMAIN ret.value : \E k \in containing :
                      /\ Before(k) = p - 1
                      /\ ret.value[p].id = df.rows[k]["movieId"]
                      /\ ret.value[p].title = df.rows[k]["title"]

\* C14 as claimed: search_movies returns an empty result when the query is
\* shorter than 2 characters; otherwise it returns, in catalog order, the
\* first `limit` records whose clean title contains the query
\* case-insensitively, and no record that does not contain it.
C14_SearchByQuery == Searched => FirstContaining(ret.args[1])

\* C14 as amended: the same of the query with the whitespace around it
\* removed: its length is measured, and it is looked for, after strip().
C14_SearchByStrippedQuery == Searched => FirstContaining(Strip(ret.args[1]))

\* a search in upper case found two titles, skipped one that does not contain
\* the query, and limit 1 kept the first
C14_Witness ==
    /\ Searched
    /\ ret.args = <<UPPER, 1>>
    /\ Len(df.rows) = 3
    /\ df.rows[1]["clean_title"] = <<"C","u","p">>
    /\ df.rows[2]["clean_title"] = Up
    /\ Len(ret.value) = 1
    /\ ret.value[1].id = df.rows[1]["movieId"]

(***************************************************************************)
(* The score of a recommendation, on the catalogs of SpecRanking.          *)
(***************************************************************************)
\* the squared cosine of the vectors of the query movie and of a returned one
CosineOf(movie) ==
    CosineSimilarity(tfidf_matrix[QueryOrdinal + 1], tfidf_matrix[OrdinalOf(movie) + 1])

\* s tenths of a percent is a nearest tenth to 100 times the cosine: the
\* cosine lies between (2s - 1) / 2000 and (2s + 1) / 2000
IsRounded(s, cosine2) ==
    /\ s > 0 => ~FracLess(cosine2, HalfwayAbove(s - 1))
    /\ ~FracLess(HalfwayAbove(s), cosine2)

\* C15: every similarity_score returned by get_recommendations is the cosine
\* similarity of the query movie and the candidate scaled by 100 and rounded
\* to one decimal place, and lies in [0, 100] inclusive (here in tenths of a
\* percent: 0 .. 1000).
C15_ScoreScaledRounded ==
    Recommended =>
        \A p \in DOMAIN Recs :
            /\ Recs[p].similarity_score \in 0..1000
            /\ IsRounded(Recs[p].similarity_score, CosineOf(Recs[p]))

\* a ranking with a score of 100.0, a score of 0.0 or a score strictly
\* between that is not a whole percent
C15_Witness ==
    /\ Recommended
    /\ Len(Recs) = 2
    /\ Recs[1].similarity_score = 1000
    /\ Recs[2].similarity_score \in 1..999
    /\ Recs[2].similarity_score % 10 # 0

(***************************************************************************)
(* Shared genres: catalogs of up to MaxMovies records whose genre strings  *)
(* are built of the tags Drama, War and Other, under two orders of ties;   *)
(* each run constructs the object and asks for the recommendations of one  *)
(* id.                                                                     *)
(***************************************************************************)
Other == <<"O","t","h","e","r">>

SharingGenres == {Drama, War, DramaWar, Other, Other \o <<"|">> \o War}

InitSharing ==
    /\ \E n \in 1..MaxMovies :
         \E genres \in [1..n -> SharingGenres] : fs = OnlyFile("movies.csv", RankTable(genres))
    /\ argsort_ties \in {StableTies(MaxRows + 1), Reverse(StableTies(MaxRows + 1))}
    /\ Attributes

RecommendForShared ==
    \E i \in 1..MaxMovies, k \in 1..MaxK :
        FirstQuery(get_recommendations(Some(RankIds[i]), None, k))

NextSharing == Construct("movies.csv") \/ RecommendForShared

SpecSharing == InitSharing /\ [][NextSharing]_vars

\* the record has a genre tag in common with the query movie
SharesGenre(movie) ==
    Range(movie.genres) \cap Range(ret.value.selected_movie[1].genres) # {}

\* C16: a candidate that shares at least one genre with the query movie is
\* ranked above every candidate that shares none, and the score of the one
\* that shares none is 0 and strictly lower.
C16_SharedGenreRanksAbove ==
    Recommended =>
        \A p, q \in DOMAIN Recs :
            (SharesGenre(Recs[p]) /\ ~SharesGenre(Recs[q])) =>
                /\ p < q
                /\ Recs[q].similarity_score = 0
                /\ Recs[q].similarity_score < Recs[p].similarity_score

(***************************************************************************)
(* A target that is not in the catalog, in the life of one object.         *)
(***************************************************************************)
\* the rows the object serves: those of df once a load succeeded
CatalogRows == IF is_loaded THEN Range(df.rows) ELSE {}

HasId(row, id) == "movieId" \in DOMAIN row /\ row["movieId"] = id

\* the resolver's three tests, on one row
Resolves(row, title) ==
    LET q == Strip(Lower(title))
    IN  \/ "title" \in DOMAIN row /\ row["title"] # NaNStr /\ Lower(row["title"]) = q
        \/ /\ "clean_title" \in DOMAIN row
           /\ row["clean_title"] # NaNStr
           /\ Contains(Lower(row["clean_title"]), q)

\* the target of the last get_recommendations is not in the catalog
TargetMissing ==
    LET movie_id == ret.args[1]
        movie_title == ret.args[2]
    IN  IF movie_id # None THEN \A row \in CatalogRows : ~HasId(row, movie_id[1])
        ELSE movie_title = None \/ \A row \in CatalogRows : ~Resolves(row, movie_title[1])

\* C17: get_recommendations with an id that is not in the catalog, or with a
\* title the resolver cannot match, returns a result with a non-empty error
\* and an empty recommendations list, and get_movie_by_id returns the record
\* whose id equals the argument, or None when no record has that id; neither
\* raises.
C17_MissingTargetReported ==
    /\ (ret.op = "get_recommendations" /\ TargetMissing) =>
           /\ ~ret.raised
           /\ ret.value.error \notin {NoError, ""}
           /\ ret.value.recommendations = <<>>
    /\ ret.op = "get_movie_by_id" =>
           /\ ~ret.raised
           /\ ret.value = None <=> \A row \in CatalogRows : ~HasId(row, ret.args[1])
           /\ ret.value # None => ret.value[1].id = ret.args[1]

\* C17 on an object whose last load succeeded and whose records all have a
\* vote count: there the claim holds.
C17_AfterGoodLoad == (error_message = NoError /\ ret.op # "load_data") => C17_MissingTargetReported

(***************************************************************************)
(* Posters: catalogs of up to MaxMovies records, with or without a         *)
(* poster_url column; each run constructs the object and makes one query.  *)
(***************************************************************************)
TmdbBase ==
    <<"h","t","t","p","s",":","/","/">> \o TmdbHost \o <<"/","t","/","p","/","w","5","0","0","/">>

\* the URLs a poster_url cell can hold: a poster of another site, the
\* placeholder the processing script writes (the base and the movie id), a
\* TMDB poster path, a placeholder image; or nothing
PosterUrls ==
    { Http \o <<":","/","/","a",".","i","o","/","p",".","j","p","g">>,
      TmdbBase \o <<"7">>,
      TmdbBase \o <<"a","b",".","j","p","g">>,
      Http \o <<":","/","/","v","i","a",".">> \o Placeholder \o <<".","c","o","m","/","3">>,
      NaNStr }

PosterTable(posters, with_column) ==
    IF with_column
    THEN [cols |-> required_cols \cup {"poster_url"},
          rows |-> [i \in DOMAIN posters |->
                      [movieId |-> RankIds[i], title |-> Title(RankTitles[i], Y2009),
                       genres |-> Drama, poster_url |-> posters[i]]]]
    ELSE [cols |-> required_cols,
          rows |-> [i \in DOMAIN posters |->
                      [movieId |-> RankIds[i], title |-> Title(RankTitles[i], Y2009),
                       genres |-> Drama]]]

InitPosters ==
    /\ \E n \in 1..MaxMovies : \E posters \in [1..n -> PosterUrls], with_column \in BOOLEAN :
         fs = OnlyFile("movies.csv", PosterTable(posters, with_column))
    /\ argsort_ties = StableTies(MaxRows + 1)
    /\ Attributes

PosterOfMovie == \E movie_id \in {RankIds[1], 99} : FirstQuery(get_movie_by_id(movie_id))

PostersOfRecommendations ==
    \E movie_id \in {RankIds[1], 99} :
        FirstQuery(get_recommendations(Some(movie_id), None, MaxK))

PostersOfSearch == FirstQuery(search_movies(<<"a","a">>, 10))

PostersOfBrowse ==
    \/ FirstQuery(get_top_rated_movies(12, <<>>))
    \/ FirstQuery(get_movies_by_genre(Drama, 20))
    \/ FirstQuery(get_filtered_movies(None, None, 0, "", "popularity", <<>>, 40))

GenresOfPosters == FirstQuery(get_all_genres)

NextPosters ==
    \/ Construct("movies.csv")
    \/ PosterOfMovie
    \/ PostersOfRecommendations
    \/ PostersOfSearch
    \/ PostersOfBrowse
    \/ GenresOfPosters

SpecPosters == InitPosters /\ [][NextPosters]_vars

\* C18: no query operation (get_recommendations, get_movie_by_id,
\* search_movies, the browse operations, get_all_genres) performs network or
\* disk I/O: none asks the poster API for a poster, and none changes or
\* needs a file.
C18_NoPosterLookup ==
    /\ [](ret.op \in QueryOps => ret.fetched = <<>>)
    /\ [][ret'.op \in QueryOps => fs' = fs]_vars

(***************************************************************************)
(* Readers, in the life of one object: queries follow one another in any   *)
(* order, which is every interleaving of readers whose calls are atomic.   *)
(***************************************************************************)
\* both raised the same exception, or both returned the same value
SameResult(a, b) ==
    /\ a.raised = b.raised
    /\ a.value = b.value
    /\ a.fetched = b.fetched

\* the last call gave what its query gives when it is run alone on the
\* object as it is now (sample() draws one of several arrangements)
AsWhenAlone ==
    LET a == ret.args
    IN  CASE ret.op = "search_movies" -> SameResult(ret, search_movies(a[1], a[2]))
          [] ret.op = "get_movie_by_id" -> SameResult(ret, get_movie_by_id(a[1]))
          [] ret.op = "find_movie" -> SameResult(ret, find_movie(a[1]))
          [] ret.op = "get_recommendations" ->
                SameResult(ret, get_recommendations(a[1], a[2], a[3]))
          [] ret.op = "get_popular_movies" ->
                \E sample \in Draws(a[1]) : SameResult(ret, get_popular_movies(a[1], sample))
          [] ret.op = "get_top_rated_movies" ->
                \E sample \in Draws(a[1]) : SameResult(ret, get_top_rated_movies(a[1], sample))
          [] ret.op = "get_all_genres" -> SameResult(ret, get_all_genres)
          [] ret.op = "get_movies_by_genre" -> SameResult(ret, get_movies_by_genre(a[1], a[2]))
          [] ret.op = "get_filtered_movies" ->
                SameResult(ret, get_filtered_movies(a[1], a[2], a[3], a[4], a[5], a[6], a[7]))
          [] OTHER -> FALSE

InitBuilds ==
    /\ \E n \in 1..MaxMovies :
         \E genres \in [1..n -> {Drama, War, DramaWar}] :
             fs = OnlyFile("movies.csv", RankTable(genres))
    /\ argsort_ties \in {StableTies(MaxRows + 1), Reverse(StableTies(MaxRows + 1))}
    /\ Attributes

Rebuild == LoadData("movies.csv")

RecommendAgain ==
    \E i \in 1..MaxMovies, k \in 1..MaxK : Query(get_recommendations(Some(RankIds[i]), None, k))

NextBuilds == Construct("movies.csv") \/ Rebuild \/ RecommendAgain

SpecBuilds == InitBuilds /\ [][NextBuilds]_vars

TargetTitles == {Up2009, Cup2013, UPPER}

TargetIds == {7, 3}

Spaces == <<" ", " ">>

TargetQueries == {<<>>, Spaces, <<"\t">>, <<"u","p">>, <<"z","z">>}

TargetTable(titles, ids) ==
    [cols |-> required_cols,
     rows |-> [i \in DOMAIN titles |->
                 [movieId |-> ids[i], title |-> titles[i], genres |-> Drama]]]

InitTarget ==
    /\ \E n \in 1..MaxMovies :
         \E titles \in [1..n -> TargetTitles], ids \in [1..n -> TargetIds] :
             /\ \A a, b \in 1..n : a # b => titles[a] # titles[b]
             /\ fs = OnlyFile("movies.csv", TargetTable(titles, ids))
    /\ argsort_ties \in {StableTies(MaxRows + 1), Reverse(StableTies(MaxRows + 1))}
    /\ Attributes

RecommendByTitle ==
    \E movie_title \in TargetQueries :
        FirstQuery(get_recommendations(None, Some(movie_title), MaxK))

RecommendByBoth ==
    \E movie_id \in {7, 3, 99}, movie_title \in TargetQueries :
        FirstQuery(get_recommendations(Some(movie_id), Some(movie_title), MaxK))

RecommendByIdOnly ==
    \E movie_id \in {7, 3, 99} : FirstQuery(get_recommendations(Some(movie_id), None, MaxK))

RecommendByNeither == FirstQuery(get_recommendations(None, None, MaxK))

NextTarget ==
    \/ Construct("movies.csv")
    \/ RecommendByTitle
    \/ RecommendByBoth
    \/ RecommendByIdOnly
    \/ RecommendByNeither

SpecTarget == InitTarget /\ [][NextTarget]_vars

\* C21: get_recommendations called with no id and a title that is empty
\* once the whitespace around it is removed returns an error result with an
\* empty recommendations list, never the recommendations of a catalog movie.
C21_BlankTitleIsError ==
    (/\ ret.op = "get_recommendations"
     /\ ret.args[1] = None
     /\ ret.args[2] # None
     /\ Strip(ret.args[2][1]) = <<>>) =>
        /\ ~ret.raised
        /\ ret.value.error \notin {NoError, ""}
        /\ ret.value.recommendations = <<>>

\* the positions of the records whose id is the one the last call was given
Holders == {k \in DOMAIN df.rows : df.rows[k]["movieId"] = ret.args[1][1]}

\* C22: when get_recommendations is given a movie id, with or without a
\* title, the id alone decides: the selected movie is the first record with
\* that id; if no record has it the result is the 'Movie not found' error,
\* even when the title would resolve; and the result is the one the call
\* gives with the same id and no title.
C22_IdDecides ==
    (ret.op = "get_recommendations" /\ is_loaded /\ ret.args[1] # None) =>
        /\ ~ret.raised
        /\ Holders = {} =>
               /\ ret.value.error = "Movie not found"
               /\ ret.value.recommendations = <<>>
        /\ Holders # {} =>
               /\ ret.value.error = NoError
               /\ ret.value.selected_movie[1].title =
                      df.rows[CHOOSE k \in Holders : \A j \in Holders : k <= j]["title"]
        /\ SameResult(ret, get_recommendations(ret.args[1], None, ret.args[3]))

\* an id no record has came with a title that a record's clean title
\* contains, and the result is 'Movie not found'
C22_Witness ==
    /\ ret.op = "get_recommendations"
    /\ is_loaded
    /\ ret.args[1] = Some(99)
    /\ ret.args[2] = Some(<<"u","p">>)
    /\ \E k \in DOMAIN df.rows : Contains(Lower(df.rows[k]["clean_title"]), <<"u","p">>)
    /\ ~ret.raised
    /\ ret.value.error = "Movie not found"

(***************************************************************************)
(* The file a load reads, in the life of one object.                       *)
(***************************************************************************)
\* the preference order of the claim, for the path the last load was given
Preference ==
    <<"tmdb_movies_processed.csv", ret.args[1], "movies_with_posters.csv",
      "movies_enhanced.csv", "movies.csv">>

\* the positions of Preference whose file is in the directory
Present == {i \in DOMAIN Preference : fs[Preference[i]] # NoFile}

\* the first file of Preference that is in the directory
Preferred == Preference[CHOOSE i \in Present : \A j \in Present : i <= j]

IdsOf(rows) == {rows[i]["movieId"] : i \in DOMAIN rows}

\* df holds rows of the file, and of no other (the files share no id)
ReadFrom(f) ==
    /\ df.rows # <<>>
    /\ IdsOf(df.rows) \subseteq IdsOf(fs[f][1].rows)
    /\ df.cols \cap fs[f][1].cols = fs[f][1].cols

\* C23: load_data reads the first file that exists in the order
\* tmdb_movies_processed.csv, the caller's csv_path, movies_with_posters.csv,
\* movies_enhanced.csv, movies.csv, and no other; the caller's csv_path is
\* read only when tmdb_movies_processed.csv does not exist; and when none of
\* them exists the load reads nothing and records 'No movie dataset found'.
C23_PreferenceOrder ==
    /\ []((ret.op \in LoadOps /\ Present # {}) =>
            /\ ReadFrom(Preferred)
            /\ fs["tmdb_movies_processed.csv"] # NoFile =>
                   ReadFrom("tmdb_movies_processed.csv"))
    /\ []((ret.op \in LoadOps /\ Present = {}) => error_message = "No movie dataset found")
    /\ [][(ret'.op \in LoadOps /\ Present' = {}) =>
            (df' = df /\ tfidf_matrix' = tfidf_matrix)]_vars

\* the caller's file was read: the processed dataset is not there, and a
\* file that comes later in the order is
C23_Witness ==
    /\ ret.op \in LoadOps
    /\ ret.args[1] = "custom.csv"
    /\ fs["tmdb_movies_processed.csv"] = NoFile
    /\ fs["custom.csv"] # NoFile
    /\ fs["movies_enhanced.csv"] # NoFile
    /\ is_loaded
    /\ ReadFrom("custom.csv")

====
